---------------------------- MODULE Spec2Model ----------------------------
(***************************************************************************)
(* Message dispatch and concurrency control of LinDream:                   *)
(*   - RateLimiter            (src/modules/rate_limiter.py)                *)
(*   - MessageHandler's concurrency isolation                               *)
(*                            (src/src/message_handler.py, lines 139-176)  *)
(*   - BotManager / MessageQueue workers                                    *)
(*                            (src/src/bot_manager.py, src/src/performance.py) *)
(* Time is counted in whole seconds (time.time() rounded); asyncio's Lock  *)
(* and Semaphore follow CPython 3.11 (FIFO waiters, slot handed over at    *)
(* release).                                                               *)
(***************************************************************************)
EXTENDS Integers, Sequences, FiniteSets, TLC

VARIABLES
    \* ---- clock
    now,                    \* time.time()
    clockSteps,             \* how many times the clock has advanced
    \* ---- RateLimiter
    message_rate_limit,     \* config performance.message_rate_limit
    burst_limit,            \* config performance.burst_limit
    cooldown_period,        \* config performance.cooldown_period
    message_rate_trackers,  \* chat_key -> deque of admission times
    cooldown_trackers,      \* chat_key -> time the cooldown was activated
    user_limits,            \* user_id -> limit
    stats,                  \* total_requests, blocked_requests, cooldown_activations
    lastCall,               \* history: the last RateLimiter call and what it returned
    admitLog,               \* history: chat_key -> times of the admitted calls
    callCount,              \* history: check_rate_limit calls made, and calls that returned False
    activations,            \* history: chat_key -> times at which a cooldown was activated
    callLog,                \* history: chat_key -> the calls made for it since it was last swept
    \* ---- MessageHandler concurrency isolation
    max_concurrent_messages,\* config performance.max_concurrent_messages
    task_timeout,           \* config performance.task_timeout
    evKey,                  \* event -> chat_key it was submitted with (None: not yet)
    pc,                     \* event -> where process_message_with_timeout stands
    tpc,                    \* event -> where its handle_message_with_isolation task stands
    deadline,               \* event -> time at which wait_for's timer fires
    semValue,               \* task_semaphore._value
    semWaiters,             \* task_semaphore._waiters (events, in order)
    fut,                    \* event -> state of the future it waits on in a waiters deque
    cancelling,             \* events whose task has a cancellation pending
    ready,                  \* the event loop's queue of coroutine steps to run
    lockHolder,             \* chat_key -> event holding processing_locks[chat_key]
    lockWaiters,            \* chat_key -> processing_locks[chat_key]._waiters
    message_queues,         \* chat_key -> queued message data (the events' ids)
    active_tasks,           \* events whose task is in active_tasks
    current,                \* event -> message its task is running process_single_message on
    verdict,                \* history: event -> what check_rate_limit returned for it
    startLog,               \* history: messages in the order process_single_message began
    outcome,                \* history: event -> how process_message_with_timeout ended
    processing_locks,       \* the chat keys that have an entry in processing_locks
    queue_keys,             \* the chat keys that have an entry in message_queues
    lastUse,                \* history: chat key -> time of the last step of a task for it
    cleanupRan,             \* the periodic_cleanup task of start_server has run
    submitted,              \* history: event -> time of its process_message_with_timeout call
    \* ---- BotManager / MessageQueue
    mq_max_size,            \* MessageQueue max_size
    mq,                     \* MessageQueue.queue
    received,               \* number of messages handle_message has enqueued
    msgKey,                 \* message -> chat key
    connOpen,               \* the connection the messages arrive on is in the pool
    worker,                 \* worker -> message it is processing (None: waiting in get)
    mqStartLog,             \* history: messages in the order process_message began
    mqDoneLog,              \* history: messages in the order process_message ended
    mq_putter,              \* the message whose handle_message waits in queue.put (NoEvent: none)
    \* ---- Pipeline
    pctx,                   \* context -> PipelineContext fields (_stopped, _error, metadata)
    ppc,                    \* context -> where Pipeline.execute stands for it
    pidx,                   \* context -> position of the for loop in stage_order
    ranLog,                 \* history: context -> stages whose process was started
    presult,                \* context -> what execute returned
    sentLog,                \* history: context -> messages sent on its websocket
    pstats,                 \* Pipeline._stats
    stopCalls,              \* history: context -> who called stop() on it
    llmCalled,              \* history: context -> llm_client.chat was called in its run
    \* ---- PluginManager
    loaded_plugins,         \* PluginManager.loaded_plugins (plugin names, in load order)
    dispatches,             \* number of handle_plugin_messages calls made
    lastDispatch,           \* history: the last handle_plugin_messages call and its outcome
    lastMessage,            \* history: the last process_single_message call and its plugin calls
    \* ---- EventBus
    bus_listeners,          \* EventBus._listeners: event type -> listeners of priority 0
    bus_priority_listeners, \* EventBus._priority_listeners: event type -> priority -> listeners
    bus_max_queue_size,     \* max_queue_size of the bus's queue
    bus_queue,              \* EventBus._queue
    bus_putters,            \* the events whose publish waits in queue.put, oldest first
    bus_task,               \* EventBus._task
    loop_pc,                \* loop task -> where it is in _process_events
    stopAwaits,             \* the tasks that unfinished stop() calls await
    bus_running,            \* EventBus._running
    bus_stats,              \* EventBus._stats
    busEvent,               \* event -> its type, _stopped and _result
    dispatching,            \* loop task -> the event it holds
    all_listeners,          \* loop task -> the listeners _dispatch_event has still to go through
    invoked,                \* history: event -> listeners called for it, in order
    resultLog,              \* history: event -> listeners that returned a value, in order
    dispatchLog,            \* history: the events in the order their dispatch began
    subscribedAs,           \* history: listener -> the priority it subscribed with
    sync_pc,                \* event -> where the publish_sync call made for it stands
    \* ---- ConnectionPool
    pool_max_connections,   \* ConnectionPool.max_connections
    pool_connections,       \* the keys of ConnectionPool.connections
    connection_times,       \* ConnectionPool.connection_times: connection id -> time added
    pool_lock,              \* ConnectionPool.lock is held
    pool_pc,                \* where the thread of the event loop is in the pool's code
    pool_added,             \* number of connections handle_connection has accepted
    poolCall                \* history: the last call made on the pool

limiterVars == <<message_rate_limit, burst_limit, cooldown_period, message_rate_trackers,
                 cooldown_trackers, user_limits, stats, lastCall, admitLog, callCount, activations,
                 callLog>>
resourceVars == <<processing_locks, queue_keys, lastUse, cleanupRan, submitted>>
isolatorVars == <<max_concurrent_messages, task_timeout, evKey, pc, tpc, deadline,
                  semValue, semWaiters, fut, cancelling, ready, lockHolder, lockWaiters,
                  message_queues, active_tasks, current, verdict, startLog, outcome,
                  resourceVars>>
queueVars == <<mq_max_size, mq, received, msgKey, connOpen, worker, mqStartLog, mqDoneLog,
               mq_putter>>
clockVars == <<now, clockSteps>>
coreVars == <<clockVars, limiterVars, isolatorVars, queueVars>>
pipelineVars == <<pctx, ppc, pidx, ranLog, presult, sentLog, pstats, stopCalls, llmCalled>>
pluginVars == <<loaded_plugins, dispatches, lastDispatch, lastMessage>>
busVars == <<bus_listeners, bus_priority_listeners, bus_max_queue_size, bus_queue, bus_putters,
             bus_running, bus_task, loop_pc, stopAwaits, bus_stats, busEvent, dispatching,
             all_listeners, invoked, subscribedAs, resultLog, dispatchLog>>
poolVars == <<pool_max_connections, pool_connections, connection_times, pool_lock, pool_pc,
              pool_added, poolCall>>
syncVars == <<sync_pc>>
extVars == <<pipelineVars, pluginVars, busVars, poolVars, syncVars>>
outsidePipeline == <<coreVars, pluginVars, busVars, poolVars, syncVars>>
outsidePlugins == <<coreVars, pipelineVars, busVars, poolVars, syncVars>>
outsideBus == <<coreVars, pipelineVars, pluginVars, poolVars, syncVars>>
outsidePool == <<limiterVars, isolatorVars, queueVars, pipelineVars, pluginVars, busVars,
                 syncVars>>
vars == <<coreVars, extVars>>

-----------------------------------------------------------------------------
(* Bounds of the model *)

MaxTicks == 1         \* seconds that pass one by one while events are handled
MaxJumps == 1         \* time advances between RateLimiter calls
MaxCalls == 4         \* RateLimiter calls per run (stats counters stay bounded)
MaxRateLimit == 2     \* message_rate_limit is drawn from 1..MaxRateLimit
MaxBurstLimit == 2    \* burst_limit of the small configurations
MaxEvents == 3        \* events submitted to process_message_with_timeout
MaxSlots == 2         \* max_concurrent_messages is drawn from 1..MaxSlots
MaxTimeout == 1       \* task_timeout is drawn from 1..MaxTimeout
MaxMessages == 3      \* messages received by BotManager.handle_message
MaxQueueSize == 2     \* MessageQueue max_size is drawn from 1..MaxQueueSize
MaxDispatches == 1    \* handle_plugin_messages calls per run
MaxBusEvents == 2     \* events published on the bus
MaxBusQueue == 2      \* the bus's max_queue_size is drawn from 1..MaxBusQueue
MaxLoopTasks == 2     \* start() calls that create a dispatch loop task
BurstCalls == 26      \* calls of the burst scenario
MaxPoolSize == 2      \* the pool's max_connections is drawn from 1..MaxPoolSize
MaxConnections == 3   \* connections accepted by handle_connection
MaxPoolSteps == 2     \* time advances between the calls on the pool

(* Program constants *)

Window == 1               \* the sliding window, seconds
StaleAfter == 60          \* a window idle this long is swept
DefaultRateLimit == 10
DefaultBurstLimit == 20
DefaultCooldown == 5
NumWorkers == 3           \* start_processors(..., num_workers=3)
DefaultMaxAge == 3600     \* cleanup_old_connections(max_age=3600)

None == "None"
NoEvent == 0             \* no event, no message: an unheld lock, an idle worker
Keys == {"group_1", "private_2"}
Users == {"u1"}
Events == 1..MaxEvents
Messages == 1..MaxMessages
Workers == 1..NumWorkers

-----------------------------------------------------------------------------
(* Python containers *)

\* d[k] = v
Put(d, k, v) == [x \in DOMAIN d \cup {k} |-> IF x = k THEN v ELSE d[x]]

\* del d[k] for every k in ks
Del(d, ks) == [x \in DOMAIN d \ ks |-> d[x]]

\* the last n elements of s
LastN(s, n) == IF Len(s) <= n THEN s ELSE SubSeq(s, Len(s) - n + 1, Len(s))

\* collections.deque(items, maxlen): keeps the last maxlen items
Deque(items, maxlen) == [items |-> LastN(items, maxlen), maxlen |-> maxlen]

\* deque.append(x): a full deque drops its leftmost item
DequeAppend(d, x) == Deque(Append(d.items, x), d.maxlen)

\* s without the (single) occurrence of x
Without(s, x) == SelectSeq(s, LAMBDA y : y # x)

\* the elements of s
Range(s) == {s[i] : i \in DOMAIN s}

\* bool(v) of a tuple: a tuple is false only when empty
TupleTruthy(v) == Len(v) # 0

-----------------------------------------------------------------------------
(* RateLimiter *)

\* RateLimiter.get_user_limit
get_user_limit(user_id) ==
    IF user_id \in DOMAIN user_limits THEN user_limits[user_id] ELSE message_rate_limit

\* the effective limit of a call: the override only when a user id is given
EffectiveLimit(user_id) ==
    IF user_id # None THEN get_user_limit(user_id) ELSE message_rate_limit

\* while rate_tracker and current_time - rate_tracker[0] > 1.0: popleft()
RECURSIVE Evict(_, _)
Evict(items, current_time) ==
    IF items # <<>> /\ current_time - Head(items) > Window
    THEN Evict(Tail(items), current_time)
    ELSE items

\* self.message_rate_trackers[chat_key] of the defaultdict: a missing key is
\* created with deque(maxlen=self.burst_limit)
TrackersWith(chat_key) ==
    IF chat_key \in DOMAIN message_rate_trackers
    THEN message_rate_trackers
    ELSE Put(message_rate_trackers, chat_key, Deque(<<>>, burst_limit))

\* the deque check_rate_limit works on: recreated with maxlen=user_limit when
\* its maxlen differs
Resized(old_tracker, user_limit) ==
    IF old_tracker.maxlen # user_limit
    THEN Deque(old_tracker.items, user_limit)
    ELSE old_tracker

\* the cooldown test of check_rate_limit
InCooldown(chat_key, current_time) ==
    /\ chat_key \in DOMAIN cooldown_trackers
    /\ current_time - cooldown_trackers[chat_key] < cooldown_period

\* what check_rate_limit returns and the state it leaves
\* a call that leaves self.stats as it found them
CheckReturnUncounted(allowed, reason, raised, trackers, cooldowns, st) ==
    [ret |-> <<allowed, reason>>, raised |-> raised,
     trackers |-> trackers, cooldowns |-> cooldowns, stats |-> stats]

CheckReturn(allowed, reason, raised, trackers, cooldowns, st) ==
    [ret |-> <<allowed, reason>>, raised |-> raised,
     trackers |-> trackers, cooldowns |-> cooldowns, stats |-> st]

\* RateLimiter.check_rate_limit(chat_key, user_id) at time current_time
check_rate_limit(chat_key, user_id, current_time) ==
    LET st1 == [stats EXCEPT !.total_requests = @ + 1]
        blocked == [st1 EXCEPT !.blocked_requests = @ + 1]
    IN
    IF InCooldown(chat_key, current_time)
    THEN CheckReturn(FALSE, "cooldown", FALSE, message_rate_trackers, cooldown_trackers, blocked)
    ELSE
      LET cd1 == Del(cooldown_trackers, {chat_key})
          user_limit == EffectiveLimit(user_id)
          tr1 == TrackersWith(chat_key)
          old_tracker == tr1[chat_key]
      IN
      IF old_tracker.maxlen # user_limit /\ user_limit < 0
      THEN \* deque(old_tracker, maxlen=user_limit) raises ValueError
           CheckReturn(FALSE, "ValueError", TRUE, tr1, cd1, st1)
      ELSE
        LET resized == Resized(old_tracker, user_limit)
            rate_tracker == [resized EXCEPT !.items = Evict(@, current_time)]
            tr2 == Put(tr1, chat_key, rate_tracker)
        IN
        IF Len(rate_tracker.items) >= user_limit
        THEN IF Len(rate_tracker.items) >= burst_limit
             THEN CheckReturn(FALSE, "burst", FALSE, tr2,
                              Put(cd1, chat_key, current_time),
                              [blocked EXCEPT !.cooldown_activations = @ + 1])
             ELSE CheckReturn(FALSE, "rate", FALSE, tr2, cd1, blocked)
        ELSE CheckReturn(TRUE, "ok", FALSE,
                         Put(tr1, chat_key, DequeAppend(rate_tracker, current_time)),
                         cd1, st1)

\* the keys cleanup_expired_trackers finds idle
ExpiredKeys(current_time) ==
    {k \in DOMAIN message_rate_trackers :
        \/ message_rate_trackers[k].items = <<>>
        \/ current_time - message_rate_trackers[k].items[Len(message_rate_trackers[k].items)] > StaleAfter}

\* the cooldown records cleanup_expired_trackers finds expired, among cds
ExpiredCooldowns(cds, current_time) ==
    {k \in DOMAIN cds : current_time - cds[k] > cooldown_period * 2}

\* a sweep that deletes the windows of the idle keys only
CooldownsKept(cds, expired_keys) == cds

\* cleanup_expired_trackers deletes the cooldown record of every key whose
\* window it deletes
SweptCooldowns(cds, expired_keys) == Del(cds, expired_keys)

NoCall == [op |-> "none", key |-> None, user |-> None, ret |-> <<TRUE, "ok">>,
           raised |-> FALSE, time |-> 0, since |-> 0]

\* the caller's side of one check_rate_limit call: state update and history
ApplyCheck(chat_key, user_id, r) ==
    /\ message_rate_trackers' = r.trackers
    /\ cooldown_trackers' = r.cooldowns
    /\ stats' = r.stats
    /\ lastCall' = [op |-> "check", key |-> chat_key, user |-> user_id, ret |-> r.ret,
                    raised |-> r.raised, time |-> now,
                    since |-> IF lastCall.op = "check" THEN now - lastCall.time ELSE 0]
    /\ callCount' = [calls |-> callCount.calls + 1,
                     refused |-> IF ~r.raised /\ ~r.ret[1] THEN callCount.refused + 1
                                 ELSE callCount.refused]
    /\ admitLog' = IF r.ret[1] /\ ~r.raised
                   THEN [admitLog EXCEPT ![chat_key] = Append(@, now)]
                   ELSE admitLog
    /\ activations' = IF r.stats.cooldown_activations > stats.cooldown_activations
                      THEN [activations EXCEPT ![chat_key] = @ \cup {now}]
                      ELSE activations
    /\ callLog' = [callLog EXCEPT ![chat_key] =
                      Append(@, [op |-> "check", time |-> now,
                                 limit |-> EffectiveLimit(user_id), ret |-> r.ret])]

\* a direct call of RateLimiter.check_rate_limit
CheckRateLimit(chat_key, user_id) ==
    /\ stats.total_requests < MaxCalls
    /\ ApplyCheck(chat_key, user_id, check_rate_limit(chat_key, user_id, now))
    /\ UNCHANGED <<clockVars, message_rate_limit, burst_limit, cooldown_period, user_limits>>
    /\ UNCHANGED <<isolatorVars, queueVars, extVars>>

\* RateLimiter.set_user_limit
SetUserLimit(user_id, limit) ==
    /\ user_limits' = Put(user_limits, user_id, limit)
    /\ UNCHANGED <<clockVars, message_rate_limit, burst_limit, cooldown_period,
                   message_rate_trackers, cooldown_trackers, stats, lastCall, admitLog, callCount,
                   activations, callLog>>
    /\ UNCHANGED <<isolatorVars, queueVars, extVars>>

\* RateLimiter.get_user_status: evicts old timestamps of a stored window
GetUserStatus(chat_key) ==
    /\ message_rate_trackers' =
         IF chat_key \in DOMAIN message_rate_trackers
         THEN [message_rate_trackers EXCEPT ![chat_key].items = Evict(@, now)]
         ELSE message_rate_trackers
    /\ callLog' = IF message_rate_trackers' # message_rate_trackers
                  THEN [callLog EXCEPT ![chat_key] =
                           Append(@, [op |-> "status", time |-> now, limit |-> 0,
                                      ret |-> <<TRUE, "status">>])]
                  ELSE callLog
    /\ UNCHANGED <<clockVars, message_rate_limit, burst_limit, cooldown_period,
                   cooldown_trackers, user_limits, stats, lastCall, admitLog, callCount, activations>>
    /\ UNCHANGED <<isolatorVars, queueVars, extVars>>

\* RateLimiter.cleanup_expired_trackers
CleanupExpiredTrackers ==
    LET expired_keys == ExpiredKeys(now)
        cd1 == SweptCooldowns(cooldown_trackers, expired_keys)
    IN
    /\ message_rate_trackers' = Del(message_rate_trackers, expired_keys)
    /\ cooldown_trackers' = Del(cd1, ExpiredCooldowns(cd1, now))
    /\ callLog' = [k \in Keys |-> IF k \in expired_keys THEN <<>> ELSE callLog[k]]
    /\ UNCHANGED <<clockVars, message_rate_limit, burst_limit, cooldown_period,
                   user_limits, stats, lastCall, admitLog, callCount, activations>>
    /\ UNCHANGED <<isolatorVars, queueVars, extVars>>

\* a second passes
Tick ==
    /\ clockSteps < MaxTicks
    /\ now' = now + 1
    /\ clockSteps' = clockSteps + 1
    /\ UNCHANGED <<limiterVars, isolatorVars, queueVars, extVars>>

\* time passes between calls: a second, long enough to empty the window, a
\* cooldown period, or long enough for a window to go stale
Jump ==
    /\ clockSteps < MaxJumps
    /\ \E d \in {1, Window + 1, cooldown_period, StaleAfter + 1} : now' = now + d
    /\ clockSteps' = clockSteps + 1
    /\ UNCHANGED <<limiterVars, isolatorVars, queueVars, extVars>>

-----------------------------------------------------------------------------
(* MessageHandler: process_message_with_timeout / handle_message_with_isolation *)

\* the two coroutines of event e: process_message_with_timeout and the task
\* it creates for handle_message_with_isolation
Outer(e) == <<"outer", e>>
Task(e) == <<"task", e>>

\* loop.call_soon of a coroutine's next step (each has at most one pending)
Sched(r, x) == IF x \in Range(r) THEN r ELSE Append(r, x)

\* a deque that serves its newest waiter first
EnqueueFront(waiters, e) == <<e>> \o waiters

\* a waiters deque after waiters.append(fut)
Enqueue(waiters, e) == Append(waiters, e)

\* a semaphore that never makes a caller wait
SemNeverLocked == FALSE

\* Semaphore.locked(): no free slot, or a waiter whose future is not cancelled
SemLocked == semValue = 0 \/ \E i \in DOMAIN semWaiters : fut[semWaiters[i]] # "cancelled"

\* Semaphore._wake_up_next on (value, waiters, futures, ready): the first
\* waiter whose future is not done takes the slot and is woken
SemWake(value, waiters, f, r) ==
    LET pending == {i \in DOMAIN waiters : f[waiters[i]] = "pending"}
    IN IF pending = {}
       THEN [value |-> value, fut |-> f, ready |-> r]
       ELSE LET i == CHOOSE i \in pending : \A j \in pending : i <= j
            IN [value |-> value - 1,
                fut |-> [f EXCEPT ![waiters[i]] = "set"],
                ready |-> Sched(r, Outer(waiters[i]))]

\* Semaphore.release on (value, waiters, futures, ready)
SemRelease(value, waiters, f, r) == SemWake(value + 1, waiters, f, r)

\* a lock that is handed out while it is held
LockAlwaysAvailable(chat_key) == TRUE

\* the test of Lock.acquire's fast path
LockAvailable(chat_key) ==
    /\ lockHolder[chat_key] = NoEvent
    /\ \A i \in DOMAIN lockWaiters[chat_key] : fut[lockWaiters[chat_key][i]] = "cancelled"

\* a release that wakes no waiter
LockWakeNobody(waiters, f, r) == [fut |-> f, ready |-> r]

\* Lock._wake_up_first on (waiters, futures, ready)
LockWake(waiters, f, r) ==
    IF waiters # <<>> /\ f[Head(waiters)] = "pending"
    THEN [fut |-> [f EXCEPT ![Head(waiters)] = "set"], ready |-> Sched(r, Task(Head(waiters)))]
    ELSE [fut |-> f, ready |-> r]

\* a get that leaves the message in the queue
DequeueNothing(queue) == queue

\* asyncio.Queue.get_nowait: what is left in the queue
Dequeue(queue) == Tail(queue)

\* the events holding a slot of task_semaphore
SlotHolders ==
    {e \in Events : \/ pc[e] \in {"waiting", "cancel_wait"}
                    \/ pc[e] = "sem_wait" /\ fut[e] = "set"}

TaskDone(e) == tpc[e] \in {"finished", "failed", "cancelled"}

\* process_message_with_timeout after the semaphore is acquired (lines 144-148):
\* the task is created, added to active_tasks, and wait_for starts its timer
AfterAcquire(e, r) ==
    /\ tpc' = [tpc EXCEPT ![e] = "created"]
    /\ active_tasks' = active_tasks \cup {e}
    /\ deadline' = [deadline EXCEPT ![e] = now + task_timeout]
    /\ pc' = [pc EXCEPT ![e] = "waiting"]
    /\ ready' = Sched(r, Task(e))

\* process_message_with_timeout is called for the next event, with chat key
\* chat_key: async with self.task_semaphore
Submit(e, chat_key) ==
    /\ pc[e] = "idle"
    /\ \A d \in Events : d < e => pc[d] # "idle"
    /\ evKey' = [evKey EXCEPT ![e] = chat_key]
    /\ IF ~SemLocked
       THEN /\ semValue' = semValue - 1
            /\ AfterAcquire(e, ready)
            /\ UNCHANGED <<semWaiters, fut>>
       ELSE /\ semWaiters' = Enqueue(semWaiters, e)
            /\ fut' = [fut EXCEPT ![e] = "pending"]
            /\ pc' = [pc EXCEPT ![e] = "sem_wait"]
            /\ UNCHANGED <<semValue, tpc, active_tasks, deadline, ready>>
    /\ UNCHANGED <<max_concurrent_messages, task_timeout, cancelling, lockHolder,
                   lockWaiters, message_queues, current, verdict, startLog, outcome>>
    /\ UNCHANGED <<clockVars, limiterVars, queueVars, extVars>>
    /\ submitted' = [submitted EXCEPT ![e] = now]
    /\ UNCHANGED <<processing_locks, queue_keys, lastUse, cleanupRan>>

\* Semaphore.acquire resumes after its future was set (a release handed it the slot)
SemResume(e) ==
    /\ ready # <<>> /\ Head(ready) = Outer(e)
    /\ pc[e] = "sem_wait"
    /\ LET ws == Without(semWaiters, e)
           f1 == [fut EXCEPT ![e] = "none"]
           w == IF semValue > 0 THEN SemWake(semValue, ws, f1, Tail(ready))
                                ELSE [value |-> semValue, fut |-> f1, ready |-> Tail(ready)]
       IN /\ semWaiters' = ws
          /\ semValue' = w.value
          /\ fut' = w.fut
          /\ AfterAcquire(e, w.ready)
    /\ UNCHANGED <<max_concurrent_messages, task_timeout, evKey, cancelling, lockHolder,
                   lockWaiters, message_queues, current, verdict, startLog, outcome>>
    /\ UNCHANGED <<clockVars, limiterVars, queueVars, extVars>>
    /\ UNCHANGED resourceVars

\* handle_message_with_isolation with the lock held (lines 161-173), up to its
\* first suspension: the rate-limit check, the put, and the first get_nowait
EnterLocked(e, waiters1, f1, r1) ==
    LET k == evKey[e]
        r == check_rate_limit(k, None, now)
    IN
    /\ ApplyCheck(k, None, r)
    /\ verdict' = [verdict EXCEPT ![e] = r.ret]
    /\ lockWaiters' = [lockWaiters EXCEPT ![k] = waiters1]
    /\ IF ~TupleTruthy(r.ret)
       THEN \* return: the lock is released and the task is done
            LET w == LockWake(waiters1, f1, r1)
            IN /\ lockHolder' = [lockHolder EXCEPT ![k] = NoEvent]
               /\ fut' = w.fut
               /\ ready' = Sched(w.ready, Outer(e))
               /\ tpc' = [tpc EXCEPT ![e] = "finished"]
               /\ UNCHANGED <<message_queues, queue_keys, current, startLog>>
       ELSE LET q == Append(message_queues[k], e)
            IN /\ lockHolder' = [lockHolder EXCEPT ![k] = e]
               /\ fut' = f1
               /\ ready' = r1
               /\ message_queues' = [message_queues EXCEPT ![k] = Dequeue(q)]
               /\ queue_keys' = queue_keys \cup {k}
               /\ current' = [current EXCEPT ![e] = Head(q)]
               /\ startLog' = Append(startLog, Head(q))
               /\ tpc' = [tpc EXCEPT ![e] = "running"]

\* the task's first step: async with self.processing_locks[chat_key]
TaskStart(e) ==
    /\ ready # <<>> /\ Head(ready) = Task(e)
    /\ tpc[e] = "created"
    /\ e \notin cancelling
    /\ IF LockAvailable(evKey[e])
       THEN EnterLocked(e, lockWaiters[evKey[e]], fut, Tail(ready))
       ELSE /\ lockWaiters' = [lockWaiters EXCEPT ![evKey[e]] = Enqueue(@, e)]
            /\ fut' = [fut EXCEPT ![e] = "pending"]
            /\ tpc' = [tpc EXCEPT ![e] = "lock_wait"]
            /\ ready' = Tail(ready)
            /\ UNCHANGED <<lockHolder, message_queues, queue_keys, current, verdict, startLog>>
            /\ UNCHANGED <<message_rate_trackers, cooldown_trackers, stats, lastCall, admitLog, callCount,
                           activations, callLog>>
    /\ UNCHANGED <<max_concurrent_messages, task_timeout, evKey, pc, deadline, semValue,
                   semWaiters, cancelling, active_tasks, outcome>>
    /\ UNCHANGED <<clockVars, message_rate_limit, burst_limit, cooldown_period, user_limits, queueVars, extVars>>
    /\ processing_locks' = processing_locks \cup {evKey[e]}
    /\ lastUse' = [lastUse EXCEPT ![evKey[e]] = now]
    /\ UNCHANGED <<cleanupRan, submitted>>

\* Lock.acquire resumes after its future was set by a release
LockResume(e) ==
    /\ ready # <<>> /\ Head(ready) = Task(e)
    /\ tpc[e] = "lock_wait"
    /\ e \notin cancelling
    /\ EnterLocked(e, Without(lockWaiters[evKey[e]], e), [fut EXCEPT ![e] = "none"], Tail(ready))
    /\ UNCHANGED <<max_concurrent_messages, task_timeout, evKey, pc, deadline, semValue,
                   semWaiters, cancelling, active_tasks, outcome>>
    /\ UNCHANGED <<clockVars, message_rate_limit, burst_limit, cooldown_period, user_limits, queueVars, extVars>>
    /\ lastUse' = [lastUse EXCEPT ![evKey[e]] = now]
    /\ UNCHANGED <<processing_locks, cleanupRan, submitted>>

\* the lock is left (async with ... __aexit__: Lock.release) and the task ends
LeaveLock(e, state) ==
    LET w == LockWake(lockWaiters[evKey[e]], fut, ready)
    IN /\ lockHolder' = [lockHolder EXCEPT ![evKey[e]] = NoEvent]
       /\ fut' = w.fut
       /\ ready' = Sched(w.ready, Outer(e))
       /\ tpc' = [tpc EXCEPT ![e] = state]
       /\ current' = [current EXCEPT ![e] = NoEvent]

\* process_single_message returns: task_done, then the while loop goes on
ProcessReturn(e) ==
    /\ tpc[e] = "running"
    /\ e \notin cancelling
    /\ LET q == message_queues[evKey[e]]
       IN IF q # <<>>
          THEN /\ message_queues' = [message_queues EXCEPT ![evKey[e]] = Dequeue(q)]
               /\ current' = [current EXCEPT ![e] = Head(q)]
               /\ startLog' = Append(startLog, Head(q))
               /\ UNCHANGED <<lockHolder, fut, tpc, ready>>
          ELSE /\ LeaveLock(e, "finished")
               /\ UNCHANGED <<message_queues, startLog>>
    /\ UNCHANGED <<max_concurrent_messages, task_timeout, evKey, pc, deadline, semValue,
                   semWaiters, cancelling, lockWaiters, active_tasks, verdict, outcome>>
    /\ UNCHANGED <<clockVars, limiterVars, queueVars, extVars>>
    /\ lastUse' = [lastUse EXCEPT ![evKey[e]] = now]
    /\ UNCHANGED <<processing_locks, queue_keys, cleanupRan, submitted>>

\* process_single_message raises: the exception leaves the loop and the lock
ProcessRaise(e) ==
    /\ tpc[e] = "running"
    /\ e \notin cancelling
    /\ LeaveLock(e, "failed")
    /\ UNCHANGED <<max_concurrent_messages, task_timeout, evKey, pc, deadline, semValue,
                   semWaiters, cancelling, lockWaiters, message_queues, active_tasks,
                   verdict, startLog, outcome>>
    /\ UNCHANGED <<clockVars, limiterVars, queueVars, extVars>>
    /\ lastUse' = [lastUse EXCEPT ![evKey[e]] = now]
    /\ UNCHANGED <<processing_locks, queue_keys, cleanupRan, submitted>>

\* Task.cancel() on a task that is not done: the future it waits on is
\* cancelled and its next step, raising CancelledError, is scheduled
RequestCancel(e, r) ==
    /\ cancelling' = cancelling \cup {e}
    /\ fut' = IF tpc[e] = "lock_wait" /\ fut[e] = "pending"
              THEN [fut EXCEPT ![e] = "cancelled"]
              ELSE fut
    /\ ready' = Sched(r, Task(e))

\* wait_for's timer fires while the task is not done: wait_for is woken
TimerFires(e) ==
    /\ pc[e] = "waiting"
    /\ ~TaskDone(e)
    /\ now >= deadline[e]
    /\ Outer(e) \notin Range(ready)
    /\ ready' = Append(ready, Outer(e))
    /\ UNCHANGED <<max_concurrent_messages, task_timeout, evKey, pc, tpc, deadline, semValue,
                   semWaiters, fut, cancelling, lockHolder, lockWaiters, message_queues,
                   active_tasks, current, verdict, startLog, outcome>>
    /\ UNCHANGED <<clockVars, limiterVars, queueVars, extVars>>
    /\ UNCHANGED resourceVars

\* wait_for resumes on its timer and finds the task not done (lines 148-151):
\* it cancels the task and waits for it to end
Timeout(e) ==
    /\ ready # <<>> /\ Head(ready) = Outer(e)
    /\ pc[e] = "waiting"
    /\ ~TaskDone(e)
    /\ pc' = [pc EXCEPT ![e] = "cancel_wait"]
    /\ RequestCancel(e, Tail(ready))
    /\ UNCHANGED <<max_concurrent_messages, task_timeout, evKey, tpc, deadline, semValue,
                   semWaiters, lockHolder, lockWaiters, message_queues, active_tasks,
                   current, verdict, startLog, outcome>>
    /\ UNCHANGED <<clockVars, limiterVars, queueVars, extVars>>
    /\ UNCHANGED resourceVars

\* a task of active_tasks is cancelled from outside (the event loop shutting down)
ExternalCancel(e) ==
    /\ pc[e] = "waiting"
    /\ e \in active_tasks
    /\ ~TaskDone(e)
    /\ e \notin cancelling
    /\ RequestCancel(e, ready)
    /\ UNCHANGED <<max_concurrent_messages, task_timeout, evKey, pc, tpc, deadline, semValue,
                   semWaiters, lockHolder, lockWaiters, message_queues, active_tasks,
                   current, verdict, startLog, outcome>>
    /\ UNCHANGED <<clockVars, limiterVars, queueVars, extVars>>
    /\ UNCHANGED resourceVars

\* a cancelled task that keeps the lock
HolderKept(e) == e

\* the holder of the lock once a cancelled task has left it
HolderAfterCancel(e) == NoEvent

\* the task's next step raises CancelledError where it is suspended
TaskCancelled(e) ==
    /\ ready # <<>> /\ Head(ready) = Task(e)
    /\ e \in cancelling
    /\ cancelling' = cancelling \ {e}
    /\ tpc' = [tpc EXCEPT ![e] = "cancelled"]
    /\ current' = [current EXCEPT ![e] = NoEvent]
    /\ CASE tpc[e] = "created" ->
              /\ ready' = Sched(Tail(ready), Outer(e))
              /\ UNCHANGED <<lockHolder, lockWaiters, fut>>
         [] tpc[e] = "lock_wait" ->
              LET ws == Without(lockWaiters[evKey[e]], e)
                  f1 == [fut EXCEPT ![e] = "none"]
                  w == IF lockHolder[evKey[e]] = NoEvent
                       THEN LockWake(ws, f1, Tail(ready))
                       ELSE [fut |-> f1, ready |-> Tail(ready)]
              IN /\ lockWaiters' = [lockWaiters EXCEPT ![evKey[e]] = ws]
                 /\ fut' = w.fut
                 /\ ready' = Sched(w.ready, Outer(e))
                 /\ UNCHANGED lockHolder
         [] tpc[e] = "running" ->
              LET w == LockWake(lockWaiters[evKey[e]], fut, Tail(ready))
              IN /\ lockHolder' = [lockHolder EXCEPT ![evKey[e]] = HolderAfterCancel(e)]
                 /\ fut' = w.fut
                 /\ ready' = Sched(w.ready, Outer(e))
                 /\ UNCHANGED lockWaiters
    /\ UNCHANGED <<max_concurrent_messages, task_timeout, evKey, pc, deadline, semValue,
                   semWaiters, message_queues, active_tasks, verdict, startLog, outcome>>
    /\ UNCHANGED <<clockVars, limiterVars, queueVars, extVars>>
    /\ lastUse' = [lastUse EXCEPT ![evKey[e]] = now]
    /\ UNCHANGED <<processing_locks, queue_keys, cleanupRan, submitted>>

\* how process_message_with_timeout ends, from where it waited and how the task ended
Outcome(e) ==
    IF pc[e] = "cancel_wait" THEN "timedout"
    ELSE IF tpc[e] = "failed" THEN "failed"
    ELSE IF tpc[e] = "cancelled" THEN "cancelled"
    ELSE "completed"

\* a finally clause that forgets the discard
DiscardNothing(tasks, e) == tasks

\* active_tasks once process_message_with_timeout has passed its finally clause
Discard(tasks, e) == tasks \ {e}

\* wait_for returns or raises with the task done (lines 149-156): the finally
\* clause discards the task, and leaving the async with releases the semaphore
OuterResume(e) ==
    /\ ready # <<>> /\ Head(ready) = Outer(e)
    /\ pc[e] \in {"waiting", "cancel_wait"}
    /\ TaskDone(e)
    /\ active_tasks' = Discard(active_tasks, e)
    /\ LET w == SemRelease(semValue, semWaiters, fut, Tail(ready))
       IN semValue' = w.value /\ fut' = w.fut /\ ready' = w.ready
    /\ pc' = [pc EXCEPT ![e] = "done"]
    /\ outcome' = [outcome EXCEPT ![e] = Outcome(e)]
    /\ UNCHANGED <<max_concurrent_messages, task_timeout, evKey, tpc, deadline,
                   semWaiters, cancelling, lockHolder, lockWaiters, message_queues,
                   current, verdict, startLog>>
    /\ UNCHANGED <<clockVars, limiterVars, queueVars, extVars>>
    /\ UNCHANGED resourceVars

\* hasattr(self, 'message_rate_trackers') in periodic_cleanup: MessageHandler
\* never sets the attribute (the windows live in the RateLimiter)
HasRateTrackers == FALSE

\* MessageHandler.periodic_cleanup, the task start_server creates once: a single
\* pass (the recall cache is not modelled); the branch that would delete
\* windows, locks and queues is entered only with the attribute above, and the
\* finished tasks leave active_tasks
PeriodicCleanup ==
    /\ ~cleanupRan
    /\ cleanupRan' = TRUE
    /\ IF HasRateTrackers
       THEN LET expired_keys == {k \in Keys : now - lastUse[k] > StaleAfter}
            IN /\ processing_locks' = processing_locks \ expired_keys
               /\ queue_keys' = queue_keys \ expired_keys
       ELSE UNCHANGED <<processing_locks, queue_keys>>
    /\ active_tasks' = active_tasks \ {e \in Events : TaskDone(e)}
    /\ UNCHANGED <<max_concurrent_messages, task_timeout, evKey, pc, tpc, deadline, semValue,
                   semWaiters, fut, cancelling, ready, lockHolder, lockWaiters,
                   message_queues, current, verdict, startLog, outcome, lastUse, submitted>>
    /\ UNCHANGED <<clockVars, limiterVars, queueVars, extVars>>

-----------------------------------------------------------------------------
(* BotManager.handle_message and the MessageQueue workers *)

\* BotManager.handle_message: the next message of the connection is put on the
\* queue by MessageQueue.put, whose `await self.queue.put(item)` waits while
\* the queue is full (asyncio.Queue.put never raises QueueFull)
Receive(chat_key) ==
    /\ connOpen
    /\ received < MaxMessages
    /\ mq_putter = NoEvent
    /\ received' = received + 1
    /\ msgKey' = [msgKey EXCEPT ![received + 1] = chat_key]
    /\ IF Len(mq) < mq_max_size
       THEN mq' = Append(mq, received + 1) /\ UNCHANGED mq_putter
       ELSE mq_putter' = received + 1 /\ UNCHANGED mq
    /\ UNCHANGED <<mq_max_size, connOpen, worker, mqStartLog, mqDoneLog>>
    /\ UNCHANGED <<clockVars, limiterVars, isolatorVars, extVars>>

\* the waiting put is woken by a get and finds room: the message is enqueued
\* and handle_message returns
ReceiveResumes ==
    /\ mq_putter # NoEvent
    /\ Len(mq) < mq_max_size
    /\ mq' = Append(mq, mq_putter)
    /\ mq_putter' = NoEvent
    /\ UNCHANGED <<mq_max_size, received, msgKey, connOpen, worker, mqStartLog, mqDoneLog>>
    /\ UNCHANGED <<clockVars, limiterVars, isolatorVars, extVars>>

\* handle_connection ends, between two messages: the connection leaves the pool
CloseConnection ==
    /\ connOpen
    /\ mq_putter = NoEvent
    /\ connOpen' = FALSE
    /\ UNCHANGED <<mq_max_size, mq, received, msgKey, worker, mqStartLog, mqDoneLog, mq_putter>>
    /\ UNCHANGED <<clockVars, limiterVars, isolatorVars, extVars>>

\* MessageQueue._process_messages gets a message and calls
\* _process_message_from_queue, which skips it when its connection is gone and
\* otherwise enters MessageHandler.process_message
WorkerTake(w) ==
    /\ worker[w] = NoEvent
    /\ mq # <<>>
    /\ mq' = Tail(mq)
    /\ IF connOpen
       THEN /\ worker' = [worker EXCEPT ![w] = Head(mq)]
            /\ mqStartLog' = Append(mqStartLog, Head(mq))
       ELSE UNCHANGED <<worker, mqStartLog>>
    /\ UNCHANGED <<mq_max_size, received, msgKey, connOpen, mqDoneLog, mq_putter>>
    /\ UNCHANGED <<clockVars, limiterVars, isolatorVars, extVars>>

\* process_message returns or raises (the exception is caught and logged)
WorkerDone(w) ==
    /\ worker[w] # NoEvent
    /\ worker' = [worker EXCEPT ![w] = NoEvent]
    /\ mqDoneLog' = Append(mqDoneLog, worker[w])
    /\ UNCHANGED <<mq_max_size, mq, received, msgKey, connOpen, mqStartLog, mq_putter>>
    /\ UNCHANGED <<clockVars, limiterVars, isolatorVars, extVars>>

-----------------------------------------------------------------------------
(* Pipeline.execute over the default pipeline (src/src/pipeline.py) *)

Contexts == {"c1", "c2"}

\* create_default_pipeline: the stages in the order they are added
stage_order == <<"Preprocess", "ContentModeration", "Command", "LLMRequest", "Response">>

\* a fresh PipelineContext: _stopped, _error, the metadata the stages use, and
\* of event_data whether the message mentions the bot and whether its text
\* starts with "%"
NewContext == [stopped |-> FALSE, error |-> None, command_result |-> None,
               command_processed |-> FALSE, llm_response |-> None,
               moderation_result |-> None, command_error |-> None,
               at_bot |-> FALSE, percent_prefix |-> FALSE]

\* a stop that leaves the context running
stop_ignored(ctx) == ctx

\* PipelineContext.stop
stop(ctx) == [ctx EXCEPT !.stopped = TRUE]

\* a set_error that records the error and leaves the context running
set_error_only(ctx, e) == [ctx EXCEPT !.error = e]

\* PipelineContext.set_error
set_error(ctx, e) == stop([ctx EXCEPT !.error = e])

\* a loop that never looks at the context's stopped flag
NeverStopped(ctx) == FALSE

\* PipelineContext.is_stopped, as the for loop of execute tests it
is_stopped(ctx) == ctx.stopped

\* PipelineStage.can_skip: no stage overrides the base method
can_skip(stage, ctx) == FALSE

\* the ways a stage's process can go for a context: what its collaborators
\* (the message's shape, the moderator, the command handlers, the LLM client,
\* the websocket) make of it
StageOutcomes(stage, ctx, called) ==
    CASE stage = "Preprocess" -> {"ok", "raise"}
      [] stage = "ContentModeration" -> {"ok", "unsafe", "raise"}
      [] stage = "Command" -> {"no_command", "processed", "unprocessed", "command_error", "raise"}
      [] stage = "LLMRequest" ->
            \* a call of the client ends with a response or with an error the
            \* stage catches; without a call the stage skips, or raises on a
            \* message it cannot read
            IF called THEN {"response", "llm_error"}
            ELSE IF ctx.command_processed THEN {"skip"} ELSE {"skip", "raise"}
      [] stage = "Response" ->
            IF ctx.command_processed
            THEN IF ctx.command_result # None THEN {"sent", "send_failed"} ELSE {"nothing"}
            ELSE IF ctx.llm_response # None THEN {"sent", "send_failed"} ELSE {"nothing"}

\* the context a stage's process leaves behind when it goes the way o
\* (an exception is handled by execute, not here)
process(stage, ctx, o) ==
    CASE stage = "ContentModeration" /\ o = "unsafe" ->
            stop([ctx EXCEPT !.moderation_result = "unsafe"])
      [] stage = "Command" /\ o = "processed" ->
            stop([ctx EXCEPT !.command_result = "command result", !.command_processed = TRUE])
      [] stage = "Command" /\ o = "unprocessed" ->
            stop([ctx EXCEPT !.command_result = "command result"])
      [] stage = "Command" /\ o = "command_error" ->
            [ctx EXCEPT !.command_error = "handler error"]
      [] stage = "LLMRequest" /\ o = "response" -> [ctx EXCEPT !.llm_response = "llm response"]
      [] OTHER -> ctx

\* what a stage's process sends on the websocket when it goes the way o
\* (_send_warning of the moderation stage sends nothing)
Sends(stage, ctx, o) ==
    CASE stage = "Response" /\ o = "sent" ->
            IF ctx.command_processed THEN <<ctx.command_result>> ELSE <<ctx.llm_response>>
      [] OTHER -> <<>>

\* the stage execute is at for context c
StageAt(c) == stage_order[pidx[c]]

\* an LLMRequest stage that calls the client for every message
AlwaysCall(ctx) == TRUE

\* the tests LLMRequestStage.process makes before it builds the request
ShouldCallLLM(ctx) ==
    /\ ~ctx.command_processed
    /\ ~is_stopped(ctx)
    /\ (ctx.at_bot \/ ctx.percent_prefix)

\* whether the stage's process, as it starts, calls llm_client.chat: never
\* when the tests fail, and not when the request is empty, no client is
\* configured or the message cannot be read
LLMCallChoices(stage, ctx) ==
    IF stage = "LLMRequest" /\ ShouldCallLLM(ctx) THEN BOOLEAN ELSE {FALSE}

\* Pipeline.execute is called with context c
Execute(c) ==
    /\ ppc[c] = "new"
    /\ ppc' = [ppc EXCEPT ![c] = "loop"]
    /\ pidx' = [pidx EXCEPT ![c] = 1]
    /\ pstats' = [pstats EXCEPT !.total_executions = @ + 1]
    /\ \E mention, prefix \in BOOLEAN :
          pctx' = [pctx EXCEPT ![c].at_bot = mention, ![c].percent_prefix = prefix]
    /\ UNCHANGED <<ranLog, presult, sentLog, stopCalls, llmCalled>>
    /\ UNCHANGED outsidePipeline

\* context.stop() called by the code that owns the context, before the run
\* or while a stage is suspended
CallerStops(c) ==
    /\ ppc[c] \in {"new", "stage"}
    /\ ~pctx[c].stopped
    /\ pctx' = [pctx EXCEPT ![c] = stop(@)]
    /\ stopCalls' = [stopCalls EXCEPT ![c] = @ \cup {"caller"}]
    /\ UNCHANGED <<ppc, pidx, ranLog, presult, sentLog, pstats, llmCalled>>
    /\ UNCHANGED outsidePipeline

\* one turn of the for loop of execute, up to the start of the stage's
\* process; after the loop, the return
LoopStep(c) ==
    /\ ppc[c] = "loop"
    /\ IF pidx[c] > Len(stage_order) \/ is_stopped(pctx[c])
       THEN /\ presult' = [presult EXCEPT ![c] = [returned |-> TRUE,
                                                   success |-> pctx[c].error = None,
                                                   error |-> pctx[c].error]]
            /\ ppc' = [ppc EXCEPT ![c] = "returned"]
            /\ UNCHANGED <<pidx, ranLog, llmCalled>>
       ELSE IF can_skip(StageAt(c), pctx[c])
            THEN /\ pidx' = [pidx EXCEPT ![c] = @ + 1]
                 /\ UNCHANGED <<ppc, ranLog, presult, llmCalled>>
            ELSE /\ ranLog' = [ranLog EXCEPT ![c] = Append(@, StageAt(c))]
                 /\ ppc' = [ppc EXCEPT ![c] = "stage"]
                 /\ \E called \in LLMCallChoices(StageAt(c), pctx[c]) :
                       llmCalled' = [llmCalled EXCEPT ![c] = @ \/ called]
                 /\ UNCHANGED <<pidx, presult>>
    /\ UNCHANGED <<pctx, sentLog, pstats, stopCalls>>
    /\ UNCHANGED outsidePipeline

\* the stage's process ends, normally or with an exception that execute catches
StageFinish(c) ==
    /\ ppc[c] = "stage"
    /\ \E o \in StageOutcomes(StageAt(c), pctx[c], llmCalled[c]) :
          IF o = "raise"
          THEN /\ pctx' = [pctx EXCEPT ![c] = set_error(@, StageAt(c))]
               /\ pstats' = [pstats EXCEPT !.stage_errors[StageAt(c)] = @ + 1]
               /\ stopCalls' = [stopCalls EXCEPT ![c] = @ \cup {"execute"}]
               /\ UNCHANGED sentLog
          ELSE /\ pctx' = [pctx EXCEPT ![c] = process(StageAt(c), @, o)]
               /\ sentLog' = [sentLog EXCEPT ![c] = @ \o Sends(StageAt(c), pctx[c], o)]
               /\ stopCalls' = IF process(StageAt(c), pctx[c], o).stopped /\ ~pctx[c].stopped
                               THEN [stopCalls EXCEPT ![c] = @ \cup {StageAt(c)}]
                               ELSE stopCalls
               /\ UNCHANGED pstats
    /\ pidx' = [pidx EXCEPT ![c] = @ + 1]
    /\ ppc' = [ppc EXCEPT ![c] = "loop"]
    /\ UNCHANGED <<ranLog, presult, llmCalled>>
    /\ UNCHANGED outsidePipeline

-----------------------------------------------------------------------------
(* PluginManager.handle_plugin_messages (src/modules/plugin_system.py) *)

Plugins == {"alpha", "beta"}

\* what a call into a plugin does: the module lacks the function, it returns
\* a false value, it returns a true value, or it raises
CallOutcomes == {"absent", "false", "true", "raise"}

\* the directory listings load_plugins can see: plugin names without repetition
Listings == {l \in UNION {[1..n -> Plugins] : n \in 0..Cardinality(Plugins)} :
                \A i, j \in DOMAIN l : i # j => l[i] # l[j]}

\* the messages handle_plugin_messages tells apart: the message type, whether
\* the bot is mentioned, and the plugin a 'plugin/<name>/<command>' text names
\* (None: the text has no such form)
PluginEvents == [message_type : {"group", "private"}, at_bot : BOOLEAN,
                 target : Plugins \cup {"unknown", None}]

\* a result that never counts as handled
NeverTruthy(result) == FALSE

\* if result: the plugin reports the message as handled
Truthy(result) == result = "true"

\* the on_message loop from position i on: the calls made, and whether a
\* plugin reported the message as handled
RECURSIVE OnMessageLoop(_, _, _, _)
OnMessageLoop(plugins, on_message, i, calls) ==
    IF i > Len(plugins)
    THEN [handled |-> FALSE, calls |-> calls]
    ELSE IF on_message[plugins[i]] = "absent"
         THEN OnMessageLoop(plugins, on_message, i + 1, calls)
         ELSE LET made == Append(calls, <<plugins[i], "on_message">>)
              IN IF Truthy(on_message[plugins[i]])
                 THEN [handled |-> TRUE, calls |-> made]
                 ELSE \* a false value, or an exception caught and logged
                      OnMessageLoop(plugins, on_message, i + 1, made)

\* the AstrBot bridge patch: process_message of the applied patch, if any
BridgePhase(patch, calls) ==
    IF patch = "absent"
    THEN [handled |-> FALSE, calls |-> calls]
    ELSE [handled |-> Truthy(patch), calls |-> Append(calls, <<"astrbot_plugin_bridge", "process_message">>)]

\* the 'plugin/<name>/<command>' form is honoured in group messages that
\* mention the bot
IsPluginCall(ev) == ev.message_type = "group" /\ ev.at_bot /\ ev.target # None

\* the on_command loop from position i on, for the plugin the message names
RECURSIVE OnCommandLoop(_, _, _, _, _)
OnCommandLoop(plugins, plugin_name, on_command, i, calls) ==
    IF i > Len(plugins)
    THEN [handled |-> FALSE, calls |-> calls]
    ELSE IF plugins[i] # plugin_name \/ on_command = "absent"
         THEN OnCommandLoop(plugins, plugin_name, on_command, i + 1, calls)
         ELSE LET made == Append(calls, <<plugins[i], "on_command">>)
              IN IF Truthy(on_command)
                 THEN [handled |-> TRUE, calls |-> made]
                 ELSE IF on_command = "raise"
                      THEN \* except Exception: ... return True
                           [handled |-> TRUE, calls |-> made]
                      ELSE OnCommandLoop(plugins, plugin_name, on_command, i + 1, made)

\* PluginManager.handle_plugin_messages: its return value and the calls it
\* made into plugins, in order.  on_message maps each loaded plugin to what its
\* on_message does with this message, on_command is what the named plugin's
\* on_command does, patch what the bridge patch does.  The multi-language
\* plugin manager module is not part of the repository: its import fails and
\* both of its blocks are skipped.
handle_plugin_messages(plugins, ev, on_message, on_command, patch) ==
    LET first == OnMessageLoop(plugins, on_message, 1, <<>>)
    IN IF first.handled THEN [ret |-> TRUE, calls |-> first.calls]
       ELSE LET bridge == BridgePhase(patch, first.calls)
            IN IF bridge.handled THEN [ret |-> TRUE, calls |-> bridge.calls]
               ELSE IF IsPluginCall(ev)
                    THEN LET cmd == OnCommandLoop(plugins, ev.target, on_command, 1, bridge.calls)
                         IN [ret |-> cmd.handled, calls |-> cmd.calls]
                    ELSE [ret |-> FALSE, calls |-> bridge.calls]

NoDispatch == [done |-> FALSE, plugins |-> <<>>, event |-> None, on_message |-> <<>>,
               on_command |-> "absent", patch |-> "absent", ret |-> FALSE, calls |-> <<>>]

\* PluginManager.load_plugins: the plugins of the listing, in its order
LoadPlugins(listing) ==
    /\ dispatches = 0
    /\ loaded_plugins' = listing
    /\ UNCHANGED <<dispatches, lastDispatch, lastMessage>>
    /\ UNCHANGED outsidePlugins

\* one call of handle_plugin_messages
HandlePluginMessages(ev, on_message, on_command, patch) ==
    /\ dispatches < MaxDispatches
    /\ dispatches' = dispatches + 1
    /\ LET r == handle_plugin_messages(loaded_plugins, ev, on_message, on_command, patch)
       IN lastDispatch' = [done |-> TRUE, plugins |-> loaded_plugins, event |-> ev,
                           on_message |-> on_message, on_command |-> on_command,
                           patch |-> patch, ret |-> r.ret, calls |-> r.calls]
    /\ UNCHANGED <<loaded_plugins, lastMessage>>
    /\ UNCHANGED outsidePlugins

\* what handle_commands sees in the text: no leading '/', a command it has a
\* branch for, or a '/' followed by a name it has no branch for
CommandKinds == {"no_command", "known", "unknown"}

NoMessage == [done |-> FALSE, command |-> "no_command", from_bot |-> FALSE, calls |-> <<>>]

\* MessageHandler.handle_commands (lines 441-512): the calls it makes into
\* plugins, after calls.  A message of the bot itself is ignored; a '/' command
\* with no branch of its own is offered to the plugin system
handle_commands(plugins, ev, command, from_bot, on_message, on_command, patch, calls) ==
    IF from_bot THEN calls
    ELSE IF command = "unknown"
         THEN calls \o handle_plugin_messages(plugins, ev, on_message, on_command, patch).calls
         ELSE calls

\* MessageHandler.process_single_message from the plugin check on (lines 225-233):
\* the calls made into plugins for one inbound message
process_single_message(plugins, ev, command, from_bot, on_message, on_command, patch) ==
    LET plugin_handled == handle_plugin_messages(plugins, ev, on_message, on_command, patch)
    IN IF plugin_handled.ret
       THEN plugin_handled.calls
       ELSE handle_commands(plugins, ev, command, from_bot, on_message, on_command, patch,
                            plugin_handled.calls)

\* one inbound message goes through process_single_message
ProcessSingleMessage(ev, command, from_bot, on_message, on_command, patch) ==
    /\ ~lastMessage.done
    /\ lastMessage' = [done |-> TRUE, command |-> command, from_bot |-> from_bot,
                       calls |-> process_single_message(loaded_plugins, ev, command, from_bot,
                                                        on_message, on_command, patch)]
    /\ UNCHANGED <<loaded_plugins, dispatches, lastDispatch>>
    /\ UNCHANGED outsidePlugins

-----------------------------------------------------------------------------
(* EventBus (src/src/event_bus.py) *)

EventTypes == {"message", "notice"}
\* the listener callbacks, named in the order in which they subscribe
ListenerNames == <<"first", "second", "third">>
Listeners == Range(ListenerNames)
Priorities == {-1, 0, 1}
BusEvents == 1..MaxBusEvents
\* the tasks that start() creates for _process_events, in creation order
LoopTasks == 1..MaxLoopTasks
\* EventBus._task before the first start()
NoTask == 0

\* what a listener does with an event: returns None, returns a value, calls
\* stop_propagation, or raises; "raise_unnamed" is a raising listener without a
\* __name__ (a functools.partial, an object with __call__)
ListenerOutcomes == {"none", "value", "stop", "raise", "raise_unnamed"}

\* sorted(keys, reverse=True): the keys from the largest down
RECURSIVE SortedDescending(_)
SortedDescending(keys) ==
    IF keys = {} THEN <<>>
    ELSE LET top == CHOOSE k \in keys : \A other \in keys : other <= k
         IN <<top>> \o SortedDescending(keys \ {top})

\* the listener lists of the given priorities, one after the other
RECURSIVE Extend(_, _)
Extend(by_priority, priorities) ==
    IF priorities = <<>> THEN <<>>
    ELSE by_priority[Head(priorities)] \o Extend(by_priority, Tail(priorities))

\* the snapshot _dispatch_event takes: the priority listeners from the highest
\* key down, then the listeners of _listeners
AllListeners(event_type) ==
    Extend(bus_priority_listeners[event_type],
           SortedDescending(DOMAIN bus_priority_listeners[event_type]))
        \o bus_listeners[event_type]

\* a listener loop that does not look at the event's _stopped
PropagationIgnored(e) == FALSE

\* Event.is_stopped
propagation_stopped(e) == e.stopped

\* the while condition of _process_events, read when a turn of the loop is over
AfterTurn == IF bus_running THEN "waiting" ELSE "ended"

\* Task.cancel() on a loop task: a task waiting in wait_for, or awaiting a
\* listener, ends with CancelledError (not an Exception, so neither handler
\* catches it); a task whose queue.get() has already returned keeps the event,
\* since wait_for of CPython 3.11 returns the result of a finished inner call
\* even when the cancellation reaches it first
Cancelled(position) == IF position = "got" THEN "got" ELSE "ended"

\* EventBus.subscribe
Subscribe(event_type, listener, priority) ==
    /\ subscribedAs[listener] = None
    /\ \A i, j \in DOMAIN ListenerNames :
          (i < j /\ ListenerNames[j] = listener) => subscribedAs[ListenerNames[i]] # None
    /\ IF priority # 0
       THEN /\ bus_priority_listeners' =
                 [bus_priority_listeners EXCEPT ![event_type] =
                     Put(@, priority,
                         IF priority \in DOMAIN @ THEN Append(@[priority], listener)
                                                  ELSE <<listener>>)]
            /\ UNCHANGED bus_listeners
       ELSE /\ bus_listeners' = [bus_listeners EXCEPT ![event_type] = Append(@, listener)]
            /\ UNCHANGED bus_priority_listeners
    /\ bus_stats' = [bus_stats EXCEPT !.total_listeners = @ + 1]
    /\ subscribedAs' = [subscribedAs EXCEPT ![listener] = <<event_type, priority>>]
    /\ UNCHANGED <<bus_max_queue_size, bus_queue, bus_putters, bus_running, bus_task, loop_pc,
                   stopAwaits, busEvent, dispatching, all_listeners, invoked, resultLog,
                   dispatchLog>>
    /\ UNCHANGED outsideBus

\* EventBus.start: a new task runs _process_events (a call on a running bus
\* returns at once)
StartBus ==
    /\ ~bus_running
    /\ \E t \in LoopTasks :
          /\ loop_pc[t] = "none"
          /\ \A earlier \in LoopTasks : earlier < t => loop_pc[earlier] # "none"
          /\ bus_task' = t
          /\ loop_pc' = [loop_pc EXCEPT ![t] = "waiting"]
    /\ bus_running' = TRUE
    /\ UNCHANGED <<bus_listeners, bus_priority_listeners, bus_max_queue_size, bus_queue,
                   bus_putters, stopAwaits, bus_stats, busEvent, dispatching, all_listeners,
                   invoked, subscribedAs, resultLog, dispatchLog>>
    /\ UNCHANGED outsideBus

\* EventBus.stop up to its await: _running is cleared and the task of the last
\* start() is cancelled (a call on a stopped bus returns at once)
StopBus ==
    /\ bus_running
    /\ bus_running' = FALSE
    /\ loop_pc' = [loop_pc EXCEPT ![bus_task] = Cancelled(@)]
    /\ dispatching' = [dispatching EXCEPT ![bus_task] =
                          IF Cancelled(loop_pc[bus_task]) = "ended" THEN NoEvent ELSE @]
    /\ all_listeners' = [all_listeners EXCEPT ![bus_task] = <<>>]
    /\ stopAwaits' = stopAwaits \cup {bus_task}
    /\ UNCHANGED <<bus_listeners, bus_priority_listeners, bus_max_queue_size, bus_queue,
                   bus_putters, bus_task, bus_stats, busEvent, invoked, subscribedAs,
                   resultLog, dispatchLog>>
    /\ UNCHANGED outsideBus

\* EventBus.stop after its await: the awaited task is over
StopReturns(t) ==
    /\ t \in stopAwaits
    /\ loop_pc[t] = "ended"
    /\ stopAwaits' = stopAwaits \ {t}
    /\ UNCHANGED <<bus_listeners, bus_priority_listeners, bus_max_queue_size, bus_queue,
                   bus_putters, bus_running, bus_task, loop_pc, bus_stats, busEvent,
                   dispatching, all_listeners, invoked, subscribedAs, resultLog, dispatchLog>>
    /\ UNCHANGED outsideBus

\* EventBus.publish: queue.put stores the event when there is room, and waits
\* for room otherwise (asyncio.Queue.put never raises QueueFull)
PublishCall(ev, event_type) ==
    /\ busEvent[ev].event_type = None
    /\ \A other \in BusEvents : other < ev => busEvent[other].event_type # None
    /\ busEvent' = [busEvent EXCEPT ![ev].event_type = event_type]
    /\ IF Len(bus_queue) < bus_max_queue_size
       THEN /\ bus_queue' = Append(bus_queue, ev)
            /\ bus_stats' = [bus_stats EXCEPT !.total_events = @ + 1]
            /\ UNCHANGED bus_putters
       ELSE /\ bus_putters' = Append(bus_putters, ev)
            /\ UNCHANGED <<bus_queue, bus_stats>>
    /\ UNCHANGED <<bus_listeners, bus_priority_listeners, bus_max_queue_size, bus_running,
                   bus_task, loop_pc, stopAwaits, dispatching, all_listeners, invoked,
                   subscribedAs, resultLog, dispatchLog>>

\* EventBus.publish, called on its own
Publish(ev, event_type) ==
    /\ PublishCall(ev, event_type)
    /\ UNCHANGED outsideBus

\* EventBus.publish_sync up to its while loop: the event is published, and
\* the caller starts to poll it
PublishSync(ev, event_type) ==
    /\ PublishCall(ev, event_type)
    /\ sync_pc' = [sync_pc EXCEPT ![ev] = "polling"]
    /\ UNCHANGED <<coreVars, pipelineVars, pluginVars, poolVars>>

\* the while condition of publish_sync: event.result is None and not event.is_stopped
StillWaiting(e) == e.result = None /\ ~e.stopped

\* publish_sync wakes from a sleep, its publish over, finds the loop
\* condition false, and returns event.result
SyncReturns(ev) ==
    /\ sync_pc[ev] = "polling"
    /\ ev \notin Range(bus_putters)
    /\ ~StillWaiting(busEvent[ev])
    /\ sync_pc' = [sync_pc EXCEPT ![ev] = "returned"]
    /\ UNCHANGED <<busVars, coreVars, pipelineVars, pluginVars, poolVars>>

\* a publish that waited in queue.put goes on once the queue has room
PutResumes ==
    /\ bus_putters # <<>>
    /\ Len(bus_queue) < bus_max_queue_size
    /\ bus_queue' = Append(bus_queue, Head(bus_putters))
    /\ bus_putters' = Tail(bus_putters)
    /\ bus_stats' = [bus_stats EXCEPT !.total_events = @ + 1]
    /\ UNCHANGED <<bus_listeners, bus_priority_listeners, bus_max_queue_size, bus_running,
                   bus_task, loop_pc, stopAwaits, busEvent, dispatching, all_listeners,
                   invoked, subscribedAs, resultLog, dispatchLog>>
    /\ UNCHANGED outsideBus

\* _process_events: the queue.get() inside wait_for returns the next event
LoopGets(t) ==
    /\ loop_pc[t] = "waiting"
    /\ bus_queue # <<>>
    /\ loop_pc' = [loop_pc EXCEPT ![t] = "got"]
    /\ dispatching' = [dispatching EXCEPT ![t] = Head(bus_queue)]
    /\ bus_queue' = Tail(bus_queue)
    /\ UNCHANGED <<bus_listeners, bus_priority_listeners, bus_max_queue_size, bus_putters,
                   bus_running, bus_task, stopAwaits, bus_stats, busEvent, all_listeners,
                   invoked, subscribedAs, resultLog, dispatchLog>>
    /\ UNCHANGED outsideBus

\* _process_events: wait_for times out on a bus that is no longer running
LoopTimeout(t) ==
    /\ loop_pc[t] = "waiting"
    /\ ~bus_running
    /\ loop_pc' = [loop_pc EXCEPT ![t] = "ended"]
    /\ UNCHANGED <<bus_listeners, bus_priority_listeners, bus_max_queue_size, bus_queue,
                   bus_putters, bus_running, bus_task, stopAwaits, bus_stats, busEvent,
                   dispatching, all_listeners, invoked, subscribedAs, resultLog, dispatchLog>>
    /\ UNCHANGED outsideBus

\* _process_events goes on with the event and _dispatch_event collects its
\* listeners
DispatchStart(t) ==
    /\ loop_pc[t] = "got"
    /\ loop_pc' = [loop_pc EXCEPT ![t] = "dispatching"]
    /\ all_listeners' = [all_listeners EXCEPT ![t] =
                            AllListeners(busEvent[dispatching[t]].event_type)]
    /\ dispatchLog' = Append(dispatchLog, dispatching[t])
    /\ UNCHANGED <<bus_listeners, bus_priority_listeners, bus_max_queue_size, bus_queue,
                   bus_putters, bus_running, bus_task, stopAwaits, bus_stats, busEvent,
                   dispatching, invoked, subscribedAs, resultLog>>
    /\ UNCHANGED outsideBus

\* one turn of the listener loop of _dispatch_event: the next listener is
\* called. What it raises is counted; printing the message reads
\* listener.__name__, and without one the AttributeError leaves
\* _dispatch_event and is counted by _process_events, which turns to the next
\* event
ListenerRuns(t, result) ==
    /\ loop_pc[t] = "dispatching"
    /\ all_listeners[t] # <<>>
    /\ ~propagation_stopped(busEvent[dispatching[t]])
    /\ invoked' = [invoked EXCEPT ![dispatching[t]] = Append(@, Head(all_listeners[t]))]
    /\ busEvent' = CASE result = "value" ->
                          [busEvent EXCEPT ![dispatching[t]].result = Head(all_listeners[t])]
                     [] result = "stop" -> [busEvent EXCEPT ![dispatching[t]].stopped = TRUE]
                     [] OTHER -> busEvent
    /\ resultLog' = IF result = "value"
                    THEN [resultLog EXCEPT ![dispatching[t]] = Append(@, Head(all_listeners[t]))]
                    ELSE resultLog
    /\ bus_stats' = IF result \in {"raise", "raise_unnamed"}
                    THEN [bus_stats EXCEPT !.errors = @ + 1] ELSE bus_stats
    /\ IF result = "raise_unnamed"
       THEN /\ loop_pc' = [loop_pc EXCEPT ![t] = AfterTurn]
            /\ dispatching' = [dispatching EXCEPT ![t] = NoEvent]
            /\ all_listeners' = [all_listeners EXCEPT ![t] = <<>>]
       ELSE /\ all_listeners' = [all_listeners EXCEPT ![t] = Tail(@)]
            /\ UNCHANGED <<loop_pc, dispatching>>
    /\ UNCHANGED <<bus_listeners, bus_priority_listeners, bus_max_queue_size, bus_queue,
                   bus_putters, bus_running, bus_task, stopAwaits, subscribedAs, dispatchLog>>
    /\ UNCHANGED outsideBus

\* the listener loop ends: no listener left, or the event was stopped
DispatchEnd(t) ==
    /\ loop_pc[t] = "dispatching"
    /\ all_listeners[t] = <<>> \/ propagation_stopped(busEvent[dispatching[t]])
    /\ loop_pc' = [loop_pc EXCEPT ![t] = AfterTurn]
    /\ dispatching' = [dispatching EXCEPT ![t] = NoEvent]
    /\ all_listeners' = [all_listeners EXCEPT ![t] = <<>>]
    /\ UNCHANGED <<bus_listeners, bus_priority_listeners, bus_max_queue_size, bus_queue,
                   bus_putters, bus_running, bus_task, stopAwaits, bus_stats, busEvent,
                   invoked, subscribedAs, resultLog, dispatchLog>>
    /\ UNCHANGED outsideBus

-----------------------------------------------------------------------------
(* ConnectionPool: add_connection / remove_connection / cleanup_old_connections *)

\* the connection ids handle_connection draws (uuid4: each one is new)
ConnIds == 1..MaxConnections

\* a connection id: the connection is no longer in the pool
Forget(ids, connection_id) == ids \ {connection_id}

\* min(self.connection_times.keys(), key=...): the first key, in insertion
\* order, with the smallest time
oldest_id ==
    CHOOSE c \in DOMAIN connection_times :
        \A d \in DOMAIN connection_times :
            \/ connection_times[c] < connection_times[d]
            \/ connection_times[c] = connection_times[d] /\ c <= d

\* the ids cleanup_old_connections collects
old_ids(current_time, max_age) ==
    {c \in DOMAIN connection_times : current_time - connection_times[c] > max_age}

\* threading.Lock.acquire by the thread of the event loop blocks: the lock is
\* held, and it is not reentrant
AcquireBlocks(held) == held

\* remove_connection called while the caller holds self.lock (lines 148, 175):
\* its `with self.lock` either blocks the thread for good, the lock being its
\* own, or removes the connection
InnerRemove(op, connection_id, ids_after, times_after) ==
    IF AcquireBlocks(TRUE)
    THEN /\ pool_pc' = "blocked"
         /\ pool_lock' = TRUE
         /\ poolCall' = [op |-> op, id |-> connection_id, returned |-> FALSE]
         /\ UNCHANGED <<pool_connections, connection_times>>
    ELSE /\ pool_pc' = "idle"
         /\ pool_lock' = FALSE
         /\ poolCall' = [op |-> op, id |-> connection_id, returned |-> TRUE]
         /\ pool_connections' = ids_after
         /\ connection_times' = times_after

\* handle_connection accepts a connection: add_connection(connection_id, connection)
AddConnection ==
    /\ pool_pc = "idle"
    /\ pool_added < MaxConnections
    /\ ~AcquireBlocks(pool_lock)
    /\ pool_added' = pool_added + 1
    /\ LET connection_id == pool_added + 1
       IN IF Cardinality(pool_connections) >= pool_max_connections
          THEN InnerRemove("add_connection", connection_id,
                           Forget(pool_connections, oldest_id) \cup {connection_id},
                           Put(Del(connection_times, {oldest_id}), connection_id, now))
          ELSE /\ pool_connections' = pool_connections \cup {connection_id}
               /\ connection_times' = Put(connection_times, connection_id, now)
               /\ poolCall' = [op |-> "add_connection", id |-> connection_id, returned |-> TRUE]
               /\ UNCHANGED <<pool_lock, pool_pc>>
    /\ UNCHANGED <<pool_max_connections, clockVars, outsidePool>>

\* the finally clause of handle_connection: remove_connection(connection_id)
RemoveConnection(connection_id) ==
    /\ pool_pc = "idle"
    /\ connection_id <= pool_added
    /\ ~AcquireBlocks(pool_lock)
    /\ pool_connections' = Forget(pool_connections, connection_id)
    /\ connection_times' = Del(connection_times, {connection_id})
    /\ poolCall' = [op |-> "remove_connection", id |-> connection_id, returned |-> TRUE]
    /\ UNCHANGED <<pool_max_connections, pool_lock, pool_pc, pool_added, clockVars, outsidePool>>

\* _cleanup_task: cleanup_old_connections() with the default max_age
CleanupOldConnections ==
    /\ pool_pc = "idle"
    /\ ~AcquireBlocks(pool_lock)
    /\ LET ids == old_ids(now, DefaultMaxAge)
       IN IF ids # {}
          THEN InnerRemove("cleanup_old_connections", NoEvent, pool_connections \ ids,
                           Del(connection_times, ids))
          ELSE /\ poolCall' = [op |-> "cleanup_old_connections", id |-> NoEvent,
                               returned |-> TRUE]
               /\ UNCHANGED <<pool_connections, connection_times, pool_lock, pool_pc>>
    /\ UNCHANGED <<pool_max_connections, pool_added, clockVars, outsidePool>>

\* time passes between the calls on the pool: a second, or more than max_age
PoolClock ==
    /\ pool_pc = "idle"
    /\ clockSteps < MaxPoolSteps
    /\ \E d \in {1, DefaultMaxAge + 1} : now' = now + d
    /\ clockSteps' = clockSteps + 1
    /\ UNCHANGED <<poolVars, outsidePool>>

-----------------------------------------------------------------------------
(* Initial states *)

InitClock == now = 0 /\ clockSteps = 0

\* RateLimiter.__init__
InitLimiter(rate, burst, cooldown) ==
    /\ message_rate_limit = rate
    /\ burst_limit = burst
    /\ cooldown_period = cooldown
    /\ message_rate_trackers = <<>>
    /\ cooldown_trackers = <<>>
    /\ user_limits = <<>>
    /\ stats = [total_requests |-> 0, blocked_requests |-> 0, cooldown_activations |-> 0]
    /\ lastCall = NoCall
    /\ admitLog = [k \in Keys |-> <<>>]
    /\ callCount = [calls |-> 0, refused |-> 0]
    /\ activations = [k \in Keys |-> {}]
    /\ callLog = [k \in Keys |-> <<>>]

\* MessageHandler.__init__
InitIsolator(slots, timeout) ==
    /\ max_concurrent_messages = slots
    /\ task_timeout = timeout
    /\ evKey = [e \in Events |-> None]
    /\ pc = [e \in Events |-> "idle"]
    /\ tpc = [e \in Events |-> "none"]
    /\ deadline = [e \in Events |-> 0]
    /\ semValue = slots
    /\ semWaiters = <<>>
    /\ fut = [e \in Events |-> "none"]
    /\ cancelling = {}
    /\ ready = <<>>
    /\ lockHolder = [k \in Keys |-> NoEvent]
    /\ lockWaiters = [k \in Keys |-> <<>>]
    /\ message_queues = [k \in Keys |-> <<>>]
    /\ active_tasks = {}
    /\ current = [e \in Events |-> NoEvent]
    /\ verdict = [e \in Events |-> <<>>]
    /\ startLog = <<>>
    /\ outcome = [e \in Events |-> None]
    /\ processing_locks = {}
    /\ queue_keys = {}
    /\ lastUse = [k \in Keys |-> 0]
    /\ cleanupRan = FALSE
    /\ submitted = [e \in Events |-> 0]

\* MessageQueue.__init__ and start_processors
InitQueue(size) ==
    /\ mq_max_size = size
    /\ mq = <<>>
    /\ received = 0
    /\ msgKey = [m \in Messages |-> None]
    /\ connOpen = TRUE
    /\ worker = [w \in Workers |-> NoEvent]
    /\ mqStartLog = <<>>
    /\ mqDoneLog = <<>>
    /\ mq_putter = NoEvent

\* no execution yet
NoResult == [returned |-> FALSE, success |-> FALSE, error |-> None]

\* Pipeline.__init__ and the contexts before their runs
InitPipeline ==
    /\ pctx = [c \in Contexts |-> NewContext]
    /\ ppc = [c \in Contexts |-> "new"]
    /\ pidx = [c \in Contexts |-> 1]
    /\ ranLog = [c \in Contexts |-> <<>>]
    /\ presult = [c \in Contexts |-> NoResult]
    /\ sentLog = [c \in Contexts |-> <<>>]
    /\ pstats = [total_executions |-> 0,
                 stage_errors |-> [st \in Range(stage_order) |-> 0]]
    /\ stopCalls = [c \in Contexts |-> {}]
    /\ llmCalled = [c \in Contexts |-> FALSE]

\* PluginManager.__init__
InitPlugins ==
    /\ loaded_plugins = <<>>
    /\ dispatches = 0
    /\ lastDispatch = NoDispatch
    /\ lastMessage = NoMessage

\* ConnectionPool.__init__
InitPool(size) ==
    /\ pool_max_connections = size
    /\ pool_connections = {}
    /\ connection_times = <<>>
    /\ pool_lock = FALSE
    /\ pool_pc = "idle"
    /\ pool_added = 0
    /\ poolCall = [op |-> "none", id |-> NoEvent, returned |-> TRUE]

\* EventBus.__init__
InitBus(size) ==
    /\ bus_listeners = [t \in EventTypes |-> <<>>]
    /\ bus_priority_listeners = [t \in EventTypes |-> <<>>]
    /\ bus_max_queue_size = size
    /\ bus_queue = <<>>
    /\ bus_putters = <<>>
    /\ bus_running = FALSE
    /\ bus_task = NoTask
    /\ loop_pc = [t \in LoopTasks |-> "none"]
    /\ stopAwaits = {}
    /\ bus_stats = [total_events |-> 0, total_listeners |-> 0, errors |-> 0]
    /\ busEvent = [ev \in BusEvents |-> [event_type |-> None, stopped |-> FALSE, result |-> None]]
    /\ dispatching = [t \in LoopTasks |-> NoEvent]
    /\ all_listeners = [t \in LoopTasks |-> <<>>]
    /\ invoked = [ev \in BusEvents |-> <<>>]
    /\ resultLog = [ev \in BusEvents |-> <<>>]
    /\ dispatchLog = <<>>
    /\ subscribedAs = [l \in Listeners |-> None]
    /\ sync_pc = [ev \in BusEvents |-> "none"]

InitExt == InitPipeline /\ InitPlugins /\ InitBus(1) /\ InitPool(1)

-----------------------------------------------------------------------------
(* Specifications *)

\* the concurrency isolation of MessageHandler, with its RateLimiter
Init ==
    /\ InitClock
    /\ InitExt
    /\ InitLimiter(1, MaxBurstLimit, DefaultCooldown)
    /\ \E slots \in 1..MaxSlots, timeout \in 1..MaxTimeout : InitIsolator(slots, timeout)
    /\ InitQueue(1)

Next ==
    \/ \E e \in Events, k \in Keys : Submit(e, k)
    \/ \E e \in Events : SemResume(e)
    \/ \E e \in Events : TaskStart(e)
    \/ \E e \in Events : LockResume(e)
    \/ \E e \in Events : ProcessReturn(e)
    \/ \E e \in Events : ProcessRaise(e)
    \/ \E e \in Events : TimerFires(e)
    \/ \E e \in Events : Timeout(e)
    \/ \E e \in Events : ExternalCancel(e)
    \/ \E e \in Events : TaskCancelled(e)
    \/ \E e \in Events : OuterResume(e)
    \/ Tick

Spec == Init /\ [][Next]_vars

\* the isolator with the periodic cleanup and a long pause
NextCleanup ==
    \/ Next
    \/ PeriodicCleanup
    \/ Jump

\* what the event loop and the clock see to: every coroutine that can take its
\* next step takes it, timers fire, the cleanup task runs, and time passes
FairCleanup ==
    /\ \A e \in Events :
          /\ WF_vars(SemResume(e)) /\ WF_vars(TaskStart(e)) /\ WF_vars(LockResume(e))
          /\ WF_vars(ProcessReturn(e)) /\ WF_vars(TimerFires(e)) /\ WF_vars(Timeout(e))
          /\ WF_vars(TaskCancelled(e)) /\ WF_vars(OuterResume(e))
    /\ WF_vars(PeriodicCleanup)
    /\ WF_vars(Jump)

SpecCleanup == Init /\ [][NextCleanup]_vars /\ FairCleanup

\* the event loop runs every callback it has scheduled, the timer of wait_for
\* fires once its deadline has passed, and process_single_message returns
\* unless it is cancelled first
FairIsolator ==
    \A e \in Events :
        /\ WF_vars(SemResume(e)) /\ WF_vars(TaskStart(e)) /\ WF_vars(LockResume(e))
        /\ WF_vars(ProcessReturn(e)) /\ WF_vars(TimerFires(e)) /\ WF_vars(Timeout(e))
        /\ WF_vars(TaskCancelled(e)) /\ WF_vars(OuterResume(e))

SpecLive == Init /\ [][Next]_vars /\ FairIsolator

\* the RateLimiter called directly
LimitValues == {-1, 0, burst_limit + 1}

InitLimiterSpec ==
    /\ InitClock
    /\ InitExt
    /\ \E rate \in 1..MaxRateLimit : InitLimiter(rate, MaxBurstLimit, DefaultCooldown)
    /\ InitIsolator(1, 1)
    /\ InitQueue(1)

NextLimiter ==
    \/ \E k \in Keys, u \in Users \cup {None} : CheckRateLimit(k, u)
    \/ \E u \in Users, l \in LimitValues : SetUserLimit(u, l)
    \/ \E k \in Keys : GetUserStatus(k)
    \/ CleanupExpiredTrackers
    \/ Jump

SpecLimiter == InitLimiterSpec /\ [][NextLimiter]_vars

\* a burst of calls on one key under the default configuration
BurstKey == "group_1"

BurstCheck ==
    /\ stats.total_requests < BurstCalls
    /\ ApplyCheck(BurstKey, None, check_rate_limit(BurstKey, None, now))
    /\ UNCHANGED <<clockVars, message_rate_limit, burst_limit, cooldown_period, user_limits>>
    /\ UNCHANGED <<isolatorVars, queueVars, extVars>>

InitBurst ==
    /\ InitClock
    /\ InitExt
    /\ InitLimiter(DefaultRateLimit, DefaultBurstLimit, DefaultCooldown)
    /\ InitIsolator(1, 1)
    /\ InitQueue(1)

NextBurst == BurstCheck \/ Jump

SpecBurst == InitBurst /\ [][NextBurst]_vars

\* BotManager's message queue and its workers
InitQueueSpec ==
    /\ InitClock
    /\ InitExt
    /\ InitLimiter(DefaultRateLimit, DefaultBurstLimit, DefaultCooldown)
    /\ InitIsolator(1, 1)
    /\ \E size \in 1..MaxQueueSize : InitQueue(size)

NextQueue ==
    \/ \E k \in Keys : Receive(k)
    \/ ReceiveResumes
    \/ CloseConnection
    \/ \E w \in Workers : WorkerTake(w)
    \/ \E w \in Workers : WorkerDone(w)

SpecQueue == InitQueueSpec /\ [][NextQueue]_vars

\* concurrent runs of the default pipeline
InitPipelineSpec ==
    /\ InitClock
    /\ InitLimiter(DefaultRateLimit, DefaultBurstLimit, DefaultCooldown)
    /\ InitIsolator(1, 1)
    /\ InitQueue(1)
    /\ InitExt

NextPipeline ==
    \/ \E c \in Contexts : Execute(c)
    \/ \E c \in Contexts : CallerStops(c)
    \/ \E c \in Contexts : LoopStep(c)
    \/ \E c \in Contexts : StageFinish(c)

SpecPipeline == InitPipelineSpec /\ [][NextPipeline]_vars

\* plugin dispatch: a load, then messages handed to handle_plugin_messages
InitPluginSpec ==
    /\ InitClock
    /\ InitLimiter(DefaultRateLimit, DefaultBurstLimit, DefaultCooldown)
    /\ InitIsolator(1, 1)
    /\ InitQueue(1)
    /\ InitExt

NextPlugins ==
    \/ \E listing \in Listings : LoadPlugins(listing)
    \/ /\ dispatches < MaxDispatches
       /\ \E ev \in PluginEvents, on_message \in [Range(loaded_plugins) -> CallOutcomes],
             patch \in CallOutcomes :
             \E on_command \in IF IsPluginCall(ev) THEN CallOutcomes ELSE {"absent"} :
                HandlePluginMessages(ev, on_message, on_command, patch)

SpecPlugins == InitPluginSpec /\ [][NextPlugins]_vars

\* MessageHandler.process_single_message over the loaded plugins
NextMessages ==
    \/ \E listing \in Listings : LoadPlugins(listing)
    \/ \E ev \in PluginEvents, on_message \in [Range(loaded_plugins) -> CallOutcomes],
          patch \in CallOutcomes, command \in CommandKinds, from_bot \in BOOLEAN :
          \E on_command \in IF IsPluginCall(ev) THEN CallOutcomes ELSE {"absent"} :
             ProcessSingleMessage(ev, command, from_bot, on_message, on_command, patch)

SpecMessages == InitPluginSpec /\ [][NextMessages]_vars

\* the event bus: subscriptions, publications and the dispatch loop
InitBusSpec ==
    /\ InitClock
    /\ InitLimiter(DefaultRateLimit, DefaultBurstLimit, DefaultCooldown)
    /\ InitIsolator(1, 1)
    /\ InitQueue(1)
    /\ InitPipeline
    /\ InitPlugins
    /\ InitPool(1)
    /\ \E size \in 1..MaxBusQueue : InitBus(size)

NextBus ==
    \/ \E t \in EventTypes, l \in Listeners, p \in Priorities : Subscribe(t, l, p)
    \/ StartBus
    \/ \E ev \in BusEvents, t \in EventTypes : Publish(ev, t)
    \/ PutResumes
    \/ \E t \in LoopTasks : LoopGets(t)
    \/ \E t \in LoopTasks : DispatchStart(t)
    \/ \E t \in LoopTasks, o \in ListenerOutcomes : ListenerRuns(t, o)
    \/ \E t \in LoopTasks : DispatchEnd(t)

SpecBus == InitBusSpec /\ [][NextBus]_vars

\* the life of the dispatch loop: start and stop calls around the
\* publications, with one listener
NextBusLoop ==
    \/ Subscribe("message", "first", 0)
    \/ StartBus
    \/ StopBus
    \/ \E t \in LoopTasks : StopReturns(t)
    \/ \E ev \in BusEvents : Publish(ev, "message")
    \/ PutResumes
    \/ \E t \in LoopTasks : LoopGets(t)
    \/ \E t \in LoopTasks : LoopTimeout(t)
    \/ \E t \in LoopTasks : DispatchStart(t)
    \/ \E t \in LoopTasks, o \in ListenerOutcomes : ListenerRuns(t, o)
    \/ \E t \in LoopTasks : DispatchEnd(t)

SpecBusLoop == InitBusSpec /\ [][NextBusLoop]_vars

\* callers of publish_sync on a running bus
NextBusSync ==
    \/ \E l \in Listeners : Subscribe("message", l, 0)
    \/ StartBus
    \/ \E ev \in BusEvents : PublishSync(ev, "message")
    \/ PutResumes
    \/ \E t \in LoopTasks : LoopGets(t)
    \/ \E t \in LoopTasks : DispatchStart(t)
    \/ \E t \in LoopTasks, o \in ListenerOutcomes : ListenerRuns(t, o)
    \/ \E t \in LoopTasks : DispatchEnd(t)
    \/ \E ev \in BusEvents : SyncReturns(ev)

SpecBusSync == InitBusSpec /\ [][NextBusSync]_vars

\* the connection pool of BotManager: connections come and go, and the
\* cleanup task sweeps the old ones
InitPoolSpec ==
    /\ InitClock
    /\ InitLimiter(DefaultRateLimit, DefaultBurstLimit, DefaultCooldown)
    /\ InitIsolator(1, 1)
    /\ InitQueue(1)
    /\ InitPipeline
    /\ InitPlugins
    /\ InitBus(1)
    /\ \E size \in 1..MaxPoolSize : InitPool(size)

NextPool ==
    \/ AddConnection
    \/ \E c \in ConnIds : RemoveConnection(c)
    \/ CleanupOldConnections
    \/ PoolClock

SpecPool == InitPoolSpec /\ [][NextPool]_vars

-----------------------------------------------------------------------------
(* Properties *)

\* the task of event e is inside async with self.processing_locks[chat_key]
InLockSection(e) == tpc[e] = "running"

\* C1: two events of the same chat key are never inside the per-key lock
\* section (running process_single_message) at the same moment
C1_NoOverlapPerKey ==
    \A e1, e2 \in Events :
        (e1 # e2 /\ InLockSection(e1) /\ InLockSection(e2)) => evKey[e1] # evKey[e2]

\* one event runs while another of its key waits for the lock, after a third
\* one has failed or timed out
C1_Witness ==
    \E e1, e2, e3 \in Events :
        /\ evKey[e1] = evKey[e2]
        /\ InLockSection(e1)
        /\ tpc[e2] = "lock_wait"
        /\ outcome[e3] \in {"failed", "timedout"}

\* C2: process_single_message starts for the events of one chat key in the
\* order of their submission (events are numbered in submission order)
C2_StartOrder ==
    \A i, j \in DOMAIN startLog :
        (i < j /\ evKey[startLog[i]] = evKey[startLog[j]]) => startLog[i] < startLog[j]

\* three events of one key have all started, the later ones after waiting
C2_Witness ==
    \E i, j \in DOMAIN startLog :
        /\ i < j
        /\ evKey[startLog[i]] = evKey[startLog[j]]
        /\ \E e \in Events : e \notin {startLog[i], startLog[j]} /\ evKey[e] = evKey[startLog[i]]
                               /\ pc[e] # "idle"

\* the original statement of C3: two messages of one conversation key are
\* never processed by the workers at the same time, and they start in the
\* order of their arrival (messages are numbered in arrival order)
C3_SameKeySerial ==
    /\ \A w1, w2 \in Workers :
          (w1 # w2 /\ worker[w1] # NoEvent /\ worker[w2] # NoEvent)
              => msgKey[worker[w1]] # msgKey[worker[w2]]
    /\ \A i, j \in DOMAIN mqStartLog :
          (i < j /\ msgKey[mqStartLog[i]] = msgKey[mqStartLog[j]])
              => mqStartLog[i] < mqStartLog[j]

\* C4: active_tasks never holds more than max_concurrent_messages tasks
C4_ActiveTasksBounded == Cardinality(active_tasks) <= max_concurrent_messages

\* every slot is taken while a further event waits for one
C4_Witness ==
    /\ Cardinality(active_tasks) = max_concurrent_messages
    /\ \E e \in Events : pc[e] = "sem_wait"

\* the semaphore's value and the slots in use add up to the budget
SlotsConserved == semValue + Cardinality(SlotHolders) = max_concurrent_messages

\* C5: a task that timed out is cancelled, holds neither slot nor lock, is out
\* of active_tasks, and its event is in no queue, is run by no task, and was
\* started at most once
C5_TimedOutReleased ==
    \A e \in Events :
        outcome[e] = "timedout" =>
            /\ tpc[e] = "cancelled"
            /\ lockHolder[evKey[e]] # e
            /\ SlotsConserved
            /\ e \notin active_tasks
            /\ \A k \in Keys : e \notin Range(message_queues[k])
            /\ \A d \in Events : current[d] # e
            /\ Cardinality({i \in DOMAIN startLog : startLog[i] = e}) <= 1

\* an event timed out while running, and a later event of its key is running
C5_Witness ==
    \E e, d \in Events :
        /\ outcome[e] = "timedout"
        /\ e \in Range(startLog)
        /\ d # e
        /\ evKey[d] = evKey[e]
        /\ InLockSection(d)

\* C6: once process_message_with_timeout has returned, however it ended, its
\* task holds no lock, waits for none, is not in active_tasks, and its slot is back
C6_ExitReleasesAll ==
    \A e \in Events :
        pc[e] = "done" =>
            /\ lockHolder[evKey[e]] # e
            /\ e \notin Range(lockWaiters[evKey[e]])
            /\ e \notin active_tasks
            /\ SlotsConserved

\* runs have ended by failure, by timeout and by cancellation
C6_Witness ==
    \A o \in {"failed", "timedout", "cancelled"} : \E e \in Events : outcome[e] = o

\* the original statement of C7: an event the RateLimiter rejected is neither
\* queued nor processed
C7_RejectedDropped ==
    \A e \in Events :
        (verdict[e] # <<>> /\ ~verdict[e][1]) =>
            /\ e \notin Range(startLog)
            /\ \A k \in Keys : e \notin Range(message_queues[k])

\* the original statement of C8: of a burst of calls within one second, the
\* first message_rate_limit are admitted, those up to burst_limit are rejected
\* without cooldown, the later ones activate a cooldown, and a call one
\* cooldown period after the burst is admitted
C8_BurstScenario ==
    LET n == stats.total_requests
        first == admitLog[BurstKey][1]
        inBurst == lastCall.time - first <= Window
    IN lastCall.op = "check" =>
        /\ (inBurst /\ n <= message_rate_limit) => lastCall.ret[1]
        /\ (inBurst /\ n > message_rate_limit /\ n <= burst_limit) =>
              /\ ~lastCall.ret[1]
              /\ stats.cooldown_activations = 0
        /\ (inBurst /\ n > burst_limit) => stats.cooldown_activations > 0
        /\ (n = BurstCalls /\ lastCall.since >= cooldown_period
              /\ lastCall.time - lastCall.since - first <= Window) => lastCall.ret[1]

\* the original statement of C9: no trailing one-second window holds more
\* than burst_limit admitted calls of one key
C9_AdmittedPerWindow ==
    \A k \in Keys : \A i \in DOMAIN admitLog[k] :
        Cardinality({j \in DOMAIN admitLog[k] :
                        /\ admitLog[k][i] - Window <= admitLog[k][j]
                        /\ admitLog[k][j] <= admitLog[k][i]}) <= burst_limit

\* the original statement of C10: no stored window holds more than
\* burst_limit timestamps
C10_WindowWithinBurst ==
    \A k \in DOMAIN message_rate_trackers :
        Len(message_rate_trackers[k].items) <= burst_limit

\* the window of chat_key as check_rate_limit sees it at line 80: the stored
\* one, cut to the effective limit and cleared of timestamps older than a second
WindowSeen(chat_key, user_limit) ==
    LET stored == IF chat_key \in DOMAIN message_rate_trackers
                  THEN message_rate_trackers[chat_key].items ELSE <<>>
    IN IF user_limit >= 0
       THEN Evict(Deque(stored, user_limit).items, now)
       ELSE Evict(stored, now)

\* the original statement of C11: without an active cooldown, a check with
\* effective limit L on a window of length n rejects and activates a cooldown
\* when n >= L and n >= burst_limit, rejects and leaves the cooldown state
\* alone when n >= L and n < burst_limit, and otherwise appends the current
\* time and admits
C11_DecisionTable ==
    [][\A k \in Keys, u \in Users \cup {None} :
          (CheckRateLimit(k, u) /\ ~InCooldown(k, now)) =>
              LET L == EffectiveLimit(u)
                  n == Len(WindowSeen(k, L))
                  rejected == ~lastCall'.raised /\ ~lastCall'.ret[1]
                  admitted == ~lastCall'.raised /\ lastCall'.ret[1]
              IN /\ (n >= L /\ n >= burst_limit) =>
                        /\ rejected
                        /\ k \in DOMAIN cooldown_trackers'
                        /\ cooldown_trackers'[k] = now
                 /\ (n >= L /\ n < burst_limit) =>
                        /\ rejected
                        /\ k \notin DOMAIN cooldown_trackers'
                        /\ stats'.cooldown_activations = stats.cooldown_activations
                 /\ n < L =>
                        /\ admitted
                        /\ message_rate_trackers'[k].items = Append(WindowSeen(k, L), now)
                        /\ k \notin DOMAIN cooldown_trackers']_vars

\* the original statement of C12: a check made less than cooldown_period after
\* a cooldown was activated for its key is rejected and leaves the windows as
\* they are, whatever cleanup_expired_trackers and get_user_status calls came
\* in between; a check made once the cooldown is over removes its record
C12_CooldownHonoured ==
    [][\A k \in Keys, u \in Users \cup {None} :
          CheckRateLimit(k, u) =>
              /\ (\E t \in activations[k] : now < t + cooldown_period) =>
                    /\ ~lastCall'.ret[1]
                    /\ message_rate_trackers' = message_rate_trackers
              /\ (k \in DOMAIN cooldown_trackers /\ ~InCooldown(k, now)) =>
                    (k \in DOMAIN cooldown_trackers' => cooldown_trackers'[k] = now)]_vars

\* the original statement of C13: check_rate_limit never raises, whatever the
\* key, the user id and the limits, overrides of zero or below included
C13_NeverRaises == lastCall.op = "check" => ~lastCall.raised

\* position of a stage in stage_order
StageIndex(stage) == CHOOSE i \in DOMAIN stage_order : stage_order[i] = stage

\* C14: when a stage's process raised, the context's error is that stage's
\* exception, the context is stopped, the failed stage is the last one started
\* and execute reports failure; a run whose context nobody stopped and in
\* which no stage raised runs every stage and reports success, whatever
\* happened to the other context
C14_StageErrorIsolated ==
    \A c \in Contexts :
        /\ "execute" \in stopCalls[c] =>
              /\ pctx[c].error = ranLog[c][Len(ranLog[c])]
              /\ pctx[c].stopped
              /\ presult[c].returned =>
                    (~presult[c].success /\ presult[c].error = pctx[c].error)
        /\ (presult[c].returned /\ stopCalls[c] = {}) =>
              /\ ranLog[c] = stage_order
              /\ presult[c].success

\* one run has failed in a stage and returned while the other, untouched, is
\* inside a later stage
C14_Witness ==
    \E c1, c2 \in Contexts :
        /\ c1 # c2
        /\ "execute" \in stopCalls[c1]
        /\ presult[c1].returned
        /\ ppc[c2] = "stage"
        /\ stopCalls[c2] = {}
        /\ pidx[c2] > StageIndex(pctx[c1].error)

\* C15: once a context is stopped, no further stage is started for it
C15_StoppedStartsNoStage ==
    [][\A c \in Contexts : pctx[c].stopped => ranLog'[c] = ranLog[c]]_vars

\* one context was stopped before its run and the run returned without
\* starting a stage; the other was stopped by a stage with stages left to run
C15_Witness ==
    \E c1, c2 \in Contexts :
        /\ stopCalls[c1] = {"caller"}
        /\ presult[c1].returned
        /\ ranLog[c1] = <<>>
        /\ "ContentModeration" \in stopCalls[c2]
        /\ presult[c2].returned

\* the original statement of C16: when the Command stage has stored a command
\* result, the Response stage runs in that execution and sends that result
C16_CommandResultSent ==
    \A c \in Contexts :
        (presult[c].returned /\ pctx[c].command_result # None) =>
            /\ "Response" \in Range(ranLog[c])
            /\ pctx[c].command_result \in Range(sentLog[c])

\* what the call c of the last dispatch did
CallOutcome(c) ==
    CASE c[2] = "on_message" -> lastDispatch.on_message[c[1]]
      [] c[2] = "on_command" -> lastDispatch.on_command
      [] OTHER -> lastDispatch.patch

\* position of a plugin in the list the last dispatch went through
LoadIndex(p) == CHOOSE i \in DOMAIN lastDispatch.plugins : lastDispatch.plugins[i] = p

\* every plugin that has an on_message and stands before the first one
\* reporting handled was asked
AskedUpToFirstHandled ==
    \A i \in DOMAIN lastDispatch.plugins :
        (/\ lastDispatch.on_message[lastDispatch.plugins[i]] # "absent"
         /\ \A j \in 1..(i - 1) : lastDispatch.on_message[lastDispatch.plugins[j]] # "true")
            => <<lastDispatch.plugins[i], "on_message">> \in Range(lastDispatch.calls)

\* the original statement of C17: when a plugin's on_message raises, the
\* remaining plugins are still asked, and the call returns False unless some
\* handle reported the message as handled
C17_OnMessageFailureContained ==
    (lastDispatch.done /\ \E p \in Range(lastDispatch.plugins) :
                              <<p, "on_message">> \in Range(lastDispatch.calls)
                              /\ lastDispatch.on_message[p] = "raise") =>
        /\ AskedUpToFirstHandled
        /\ (\A i \in DOMAIN lastDispatch.calls : CallOutcome(lastDispatch.calls[i]) # "true")
              => ~lastDispatch.ret

\* the original statement of C18: an on_command that raises does not make
\* handle_plugin_messages return True
C18_CommandFailureNotHandled ==
    (lastDispatch.done /\ lastDispatch.on_command = "raise"
        /\ <<lastDispatch.event.target, "on_command">> \in Range(lastDispatch.calls))
        => ~lastDispatch.ret

\* C19: on_message is asked plugin by plugin in load order, no plugin with an
\* on_message is passed over, and the first true answer ends the call with
\* True, no call being made after it
C19_FirstHandlerWins ==
    lastDispatch.done =>
        /\ lastDispatch.plugins = loaded_plugins
        /\ \A i, j \in DOMAIN lastDispatch.calls :
              (i < j /\ lastDispatch.calls[i][2] = "on_message"
                     /\ lastDispatch.calls[j][2] = "on_message")
                  => LoadIndex(lastDispatch.calls[i][1]) < LoadIndex(lastDispatch.calls[j][1])
        /\ AskedUpToFirstHandled
        /\ \A i \in DOMAIN lastDispatch.calls :
              (lastDispatch.calls[i][2] = "on_message"
                  /\ CallOutcome(lastDispatch.calls[i]) = "true")
                  => (lastDispatch.ret /\ i = Len(lastDispatch.calls))

\* two plugins loaded against the alphabet; the first one fails, the second
\* one handles the message; and a dispatch where the first one handles it
\* while the second one would have, too
C19_Witness ==
    /\ lastDispatch.done
    /\ lastDispatch.plugins = <<"beta", "alpha">>
    /\ lastDispatch.on_message["alpha"] = "true"
    /\ lastDispatch.on_message["beta"] \in {"raise", "true"}
    /\ lastDispatch.ret

\* the original statement of C20: the listeners of an event run in
\* non-increasing order of the priority they subscribed with, zero and
\* negative priorities included
C20_PriorityOrder ==
    \A ev \in BusEvents : \A i, j \in DOMAIN invoked[ev] :
        i < j => subscribedAs[invoked[ev][i]][2] >= subscribedAs[invoked[ev][j]][2]

\* the dispatch of the event has begun and is over
Dispatched(ev) ==
    /\ ev \in Range(dispatchLog)
    /\ \A t \in LoopTasks : dispatching[t] # ev

\* the original statement of C21: once an event is dispatched its result is
\* the value of the first listener, in invocation order, that returned one;
\* what later listeners return does not replace it
C21_FirstResultKept ==
    \A ev \in BusEvents :
        (Dispatched(ev) /\ resultLog[ev] # <<>>) => busEvent[ev].result = Head(resultLog[ev])

\* the original statement of C22: publish on a full queue returns without
\* storing the event, so no publisher ever waits for room and no event of
\* such a publish reaches the queue later
C22_FullQueueDrops == bus_putters = <<>>

\* the original statement of C23: a listener that raises is counted, the
\* listeners after it are still in line for the event, and the loop goes on
C23_ListenerErrorIsolated ==
    [][\A t \in LoopTasks :
          (/\ loop_pc[t] = "dispatching"
           /\ invoked'[dispatching[t]] # invoked[dispatching[t]]
           /\ bus_stats'.errors # bus_stats.errors)
          => /\ bus_stats'.errors = bus_stats.errors + 1
             /\ loop_pc'[t] = "dispatching"
             /\ dispatching'[t] = dispatching[t]
             /\ all_listeners'[t] = Tail(all_listeners[t])]_vars

\* C24: once stop_propagation was called on an event, no further listener is
\* called for it
C24_StoppedReachesNoListener ==
    [][\A ev \in BusEvents : busEvent[ev].stopped => invoked'[ev] = invoked[ev]]_vars

\* an event whose first listener (the one of highest priority, subscribed
\* last) stopped it: its dispatch is over and the two listeners subscribed
\* before were not called
C24_Witness ==
    \E ev \in BusEvents :
        /\ Dispatched(ev)
        /\ busEvent[ev].stopped
        /\ invoked[ev] = <<"third">>
        /\ \A l \in Listeners : subscribedAs[l] # None
                                  /\ subscribedAs[l][1] = busEvent[ev].event_type

\* the loop tasks that have not ended
LiveLoops == {t \in LoopTasks : loop_pc[t] \in {"waiting", "got", "dispatching"}}

\* the original statement of C25: events of one type are dispatched in the
\* order of their publication, at most one dispatch loop runs whatever start
\* and stop calls are made, and no dispatch begins before the one before is
\* over
C25_OneLoopInOrder ==
    /\ \A i, j \in DOMAIN dispatchLog :
          (i < j /\ busEvent[dispatchLog[i]].event_type = busEvent[dispatchLog[j]].event_type)
              => dispatchLog[i] < dispatchLog[j]
    /\ Cardinality(LiveLoops) <= 1
    /\ Cardinality({t \in LoopTasks : loop_pc[t] = "dispatching"}) <= 1

\* the original statement of C26: cleanup_expired_trackers removes exactly the
\* windows that are empty or whose latest admission is more than 60 seconds
\* old, and exactly the cooldown records older than twice the cooldown
\* period; every other window and cooldown record stays as it was
C26_CleanupRemovesOnlyExpired ==
    [][CleanupExpiredTrackers =>
          LET idle == {k \in DOMAIN message_rate_trackers :
                          \/ message_rate_trackers[k].items = <<>>
                          \/ now - message_rate_trackers[k].items[
                                       Len(message_rate_trackers[k].items)] > StaleAfter}
              old == {k \in DOMAIN cooldown_trackers :
                          now - cooldown_trackers[k] > cooldown_period * 2}
          IN /\ message_rate_trackers' = Del(message_rate_trackers, idle)
             /\ cooldown_trackers' = Del(cooldown_trackers, old)]_vars

\* the calls of a log without their outcomes
CallsOf(log) == [i \in DOMAIN log |-> [op |-> log[i].op, time |-> log[i].time,
                                       limit |-> log[i].limit]]

\* the window and cooldown record stored for a key
KeyState(chat_key) ==
    [window |-> IF chat_key \in DOMAIN message_rate_trackers
                THEN <<message_rate_trackers[chat_key]>> ELSE <<>>,
     cooldown |-> IF chat_key \in DOMAIN cooldown_trackers
                  THEN <<cooldown_trackers[chat_key]>> ELSE <<>>]

\* C27: a swept key is as good as new; two keys that got the same calls, one
\* since it was swept and the other since the start, got the same answers and
\* have the same window and cooldown record
C27_SweptKeyIsFresh ==
    \A k1, k2 \in Keys :
        CallsOf(callLog[k1]) = CallsOf(callLog[k2])
            => (callLog[k1] = callLog[k2] /\ KeyState(k1) = KeyState(k2))

\* a key that was admitted, swept and called again, next to a key first seen
\* after the sweep that got the same calls
C27_Witness ==
    \E k1, k2 \in Keys :
        /\ k1 # k2
        /\ callLog[k1] # <<>>
        /\ CallsOf(callLog[k1]) = CallsOf(callLog[k2])
        /\ \E i \in DOMAIN admitLog[k1] : \A j \in DOMAIN callLog[k1] :
              admitLog[k1][i] < callLog[k1][j].time
        /\ Len(admitLog[k2]) <= Len(callLog[k2])
        /\ \E j \in DOMAIN callLog[k1] : callLog[k1][j].ret[1]

\* C28: a context that carries an unsafe verdict is stopped, and the Command,
\* LLMRequest and Response stages did not run for it
C28_UnsafeStopsRun ==
    \A c \in Contexts :
        pctx[c].moderation_result # None =>
            /\ pctx[c].stopped
            /\ Range(ranLog[c]) \cap {"Command", "LLMRequest", "Response"} = {}

\* a run that returned after the moderation stage judged the message unsafe:
\* two stages ran and no error was recorded
C28_Witness ==
    \E c \in Contexts :
        /\ pctx[c].moderation_result # None
        /\ presult[c].returned /\ presult[c].success
        /\ ranLog[c] = <<"Preprocess", "ContentModeration">>
        /\ stopCalls[c] = {"ContentModeration"}

\* C29: the step in which the LLM client is called starts from a context that
\* is not stopped, has no processed command, and whose message mentions the
\* bot or starts with "%"
C29_LLMCallGuarded ==
    [][\A c \in Contexts :
          (llmCalled'[c] /\ ~llmCalled[c]) =>
              /\ ~pctx[c].stopped
              /\ ~pctx[c].command_processed
              /\ (pctx[c].at_bot \/ pctx[c].percent_prefix)]_vars

\* one run called the client for a message with the "%" prefix and got a
\* response; another run reached the LLMRequest stage with a message that
\* neither mentions the bot nor has the prefix, and returned without a call
C29_Witness ==
    \E c1, c2 \in Contexts :
        /\ llmCalled[c1] /\ pctx[c1].percent_prefix /\ ~pctx[c1].at_bot
        /\ pctx[c1].llm_response # None
        /\ ~llmCalled[c2] /\ ~pctx[c2].at_bot /\ ~pctx[c2].percent_prefix
        /\ "LLMRequest" \in Range(ranLog[c2])
        /\ presult[c2].returned

\* no task is at work for the key, and its last step is more than the
\* staleness threshold ago
IdleKey(k) ==
    /\ \A e \in Events : evKey[e] = k => pc[e] = "done"
    /\ now - lastUse[k] > StaleAfter

\* the original statement of C30: the lock and the queue kept for a chat key
\* that has been idle longer than the staleness threshold are eventually
\* removed
C30_IdleKeysReleased ==
    \A k \in Keys :
        (IdleKey(k) /\ (k \in processing_locks \/ k \in queue_keys))
            ~> (k \notin processing_locks /\ k \notin queue_keys)

\* the original statement of C31: the rate-limit check of an event comes
\* before its slot and its lock, so an event the RateLimiter rejected holds no
\* slot of the semaphore
C31_RejectedHoldsNoSlot ==
    \A e \in Events : (verdict[e] # <<>> /\ ~verdict[e][1]) => e \notin SlotHolders

\* the original statement of C32: the timeout runs from the submission in
\* every phase, so an event in flight for longer than task_timeout is under a
\* timer that is due since task_timeout after its submission
C32_TimeoutFromSubmission ==
    \A e \in Events :
        (pc[e] \notin {"idle", "done"} /\ now - submitted[e] > task_timeout)
            => (pc[e] \in {"waiting", "cancel_wait"}
                    /\ deadline[e] <= submitted[e] + task_timeout)

\* the original statement of C33: a command handler that raises fails the run
\* fast; the context's error is set, the context is stopped, and neither the
\* LLMRequest nor the Response stage runs for it
C33_CommandErrorFailsFast ==
    \A c \in Contexts :
        pctx[c].command_error # None =>
            /\ pctx[c].error # None
            /\ pctx[c].stopped
            /\ Range(ranLog[c]) \cap {"LLMRequest", "Response"} = {}

\* no call of process_message_with_timeout is under way
Quiescent == \A e \in Events : pc[e] \in {"idle", "done"}

\* C34: under fair scheduling every submitted event leaves the isolator (a call
\* never goes back once it has returned, so this is: from some point on no call
\* is under way), and whenever no event is pending the semaphore is at full
\* capacity and no per-key lock is held
C34_EveryEventLeaves ==
    /\ <>[]Quiescent
    /\ [](Quiescent => /\ semValue = max_concurrent_messages
                       /\ \A k \in Keys : lockHolder[k] = NoEvent)

\* every slot is held by events of one key, one of them waits for that key's
\* lock, and a further event of the key waits for a slot
C34_Witness ==
    /\ max_concurrent_messages = MaxSlots
    /\ Cardinality(SlotHolders) = max_concurrent_messages
    /\ \A e \in Events : pc[e] # "idle" => evKey[e] = "group_1"
    /\ \E e \in Events : pc[e] = "sem_wait" /\ fut[e] = "pending"
    /\ \E e \in SlotHolders : tpc[e] = "lock_wait"

\* the original statement of C35: no call on the pool blocks forever on the
\* pool's own lock; add_connection on a full pool and cleanup_old_connections
\* with old connections both return, and the pool holds at most
\* max_connections connections
C35_PoolNeverBlocks ==
    /\ pool_pc # "blocked"
    /\ poolCall.returned
    /\ Cardinality(pool_connections) <= pool_max_connections

\* the original statement of C36: for one inbound message handled by
\* process_single_message, every loaded plugin's on_message is invoked at most
\* once, whatever the content of the message
C36_OnMessageOncePerMessage ==
    \A p \in Plugins :
        Cardinality({i \in DOMAIN lastMessage.calls :
                        lastMessage.calls[i] = <<p, "on_message">>}) <= 1

\* the original statement of C37: a put on a full MessageQueue discards the
\* oldest queued message and enqueues the new one, so handle_message never
\* waits for room in the queue
C37_ProducerNeverWaits == mq_putter = NoEvent

\* the original statement of C38: with the bus running, a publish_sync call
\* returns once its event has been dispatched to all of its listeners, also
\* when none of them returned a value or stopped the event and when there is
\* no listener.  An event is not touched again after its dispatch, so the call
\* returns only if its loop condition is false by then
C38_PublishSyncReturns ==
    \A ev \in BusEvents :
        (bus_running /\ sync_pc[ev] = "polling" /\ Dispatched(ev))
            => ~(busEvent[ev].result = None /\ ~busEvent[ev].stopped)

\* C39: the message queue of a chat key is empty whenever the key's processing
\* lock is not held: what handle_message_with_isolation put was taken out
\* before the lock was released, however the processing ended
C39_QueueEmptyWhenUnlocked ==
    \A k \in Keys : lockHolder[k] = NoEvent => message_queues[k] = <<>>

\* three events of one key were put on its queue and processed; one returned,
\* one raised and one timed out, and the key's lock is free again
C39_Witness ==
    \E k \in queue_keys :
        /\ lockHolder[k] = NoEvent
        /\ \A o \in {"completed", "failed", "timedout"} :
              \E e \in Range(startLog) : evKey[e] = k /\ outcome[e] = o

\* C40: with no reset_stats, total_requests is the number of check_rate_limit
\* calls made, blocked_requests the number of those that returned
\* allowed=False, and cooldown_activations <= blocked_requests <= total_requests
C40_StatsCountCalls ==
    /\ stats.total_requests = callCount.calls
    /\ stats.blocked_requests = callCount.refused
    /\ stats.cooldown_activations <= stats.blocked_requests
    /\ stats.blocked_requests <= stats.total_requests

\* calls were admitted, one was refused and started a cooldown, and a later
\* one was refused because of the cooldown
C40_Witness ==
    /\ callCount.calls = MaxCalls
    /\ stats.cooldown_activations = 1
    /\ stats.blocked_requests = 2
    /\ lastCall.op = "check" /\ lastCall.ret = <<FALSE, "cooldown">>

=============================================================================
